---- MODULE Spec2Model ----
(***************************************************************************)
(* Model of the Slack channel adapter (src/src/channels/slack.ts):         *)
(* connection lifecycle, outbound delivery queue, drain loop, message      *)
(* splitting, mention resolution and catch-up.                             *)
(*                                                                         *)
(* Strings are sequences of one-character strings, indexed from 1; the     *)
(* JavaScript indices of the source (from 0) are kept in the operators     *)
(* that model String methods.                                              *)
(***************************************************************************)
EXTENDS Integers, Sequences, FiniteSets, TLC

(***************************************************************************)
(* Bounds of the model.                                                    *)
(***************************************************************************)
\* number of sendMessage() calls in a behaviour
MaxMsgs == 2
\* number of chat.postMessage calls that fail in a behaviour
MaxFails == 1
\* number of addReaction/removeReaction/sendFile calls in a behaviour
MaxCalls == 1
\* length of the longest text splitMessage() is called with on its own
MaxTextLen == 9
\* number of inbound events in a behaviour
MaxEvents == 2
\* calls of catchUpMessages()
MaxRuns == 2
\* number of pieces of the longest text resolveMentions() is called with on its own
MaxPieces == 3
\* length of the longest generated id the router is called with
MaxJidLen == 3
\* number of channels of the longest list the router is called with
MaxChannels == 2

(***************************************************************************)
(* Program constants.  MAX_MESSAGE_LENGTH is 39000 in the source; the      *)
(* model scales it down so that texts longer than the limit can be         *)
(* enumerated.                                                             *)
(***************************************************************************)
MAX_MESSAGE_LENGTH == 6
\* MAX_FILE_SIZE is 20 MiB in the source; sizes are scaled with it
MAX_FILE_SIZE == 2
\* the snippet of a reacted-to message is cut at 200 characters in the source
SnippetLimit == 3

NL == "\n"
Undefined == "undefined"

VARIABLES
  connected,                \* this.connected
  botUserId,                \* this.botUserId
  outgoingQueue,            \* this.outgoingQueue
  flushing,                 \* this.flushing
  channelSyncTimerStarted,  \* this.channelSyncTimerStarted
  userInfoCache,            \* this.userInfoCache, in insertion order
  connPc,                   \* where the running connect() is suspended
  connectResult,            \* how the last connect() settled
  connectTriggers,          \* what the last successful connect() started, in order
  fileCleanupStarted,       \* startFileCleanup() has armed its timer
  sends,                    \* every sendMessage() call: arguments, position, result
  flushLoops,               \* the running flushOutgoingQueue() loops
  posts,                    \* every chat.postMessage call, in call order
  fails,                    \* number of failed chat.postMessage calls so far
  catchUp,                  \* the catchUpMessages() call: position and count
  events,                   \* every inbound event: the event and its handler's position
  delivered,                \* every opts.onMessage call, in call order
  metadata,                 \* the events opts.onChatMetadata was called for
  deleted,                  \* the events opts.onMessageDelete was called for
  calls,                    \* addReaction/removeReaction/sendFile calls and results
  split,                    \* a splitMessage() call: text, loop state, chunks
  mentions,                 \* a resolveMentions() call: text, cache, loop state
  route                     \* a call of ownsJid, routeOutbound or findChannel

vars == <<connected, botUserId, outgoingQueue, flushing, channelSyncTimerStarted,
          userInfoCache, connPc, connectResult, connectTriggers,
          fileCleanupStarted, sends, flushLoops, posts, fails, catchUp,
          events, delivered, metadata, deleted, calls, split, mentions,
          route>>

connVars == <<connected, botUserId, channelSyncTimerStarted, connPc, connectResult,
              connectTriggers, fileCleanupStarted>>
catchUpVars == <<catchUp>>
inboundVars == <<events, delivered, metadata, deleted>>
opVars == <<calls>>
\* the calls of the functions that are checked on their own
splitVars == <<split, mentions, route>>
restVars == <<inboundVars, opVars, splitVars>>
\* the state of the adapter object and of its callers
adapterVars == <<connVars, catchUpVars, inboundVars, opVars, outgoingQueue, flushing,
                 userInfoCache, sends, flushLoops, posts, fails>>

(***************************************************************************)
(* String helpers (JavaScript String methods).                             *)
(***************************************************************************)
Min(a, b) == IF a < b THEN a ELSE b

\* s.slice(from, to) with 0 <= from, JavaScript indices
Slice(s, from, to) == SubSeq(s, from + 1, Min(to, Len(s)))

\* s.slice(from)
SliceFrom(s, from) == SubSeq(s, from + 1, Len(s))

\* s.lastIndexOf(c, from): the last JavaScript index <= from holding c, or -1
LastIndexOf(s, c, from) ==
  LET hits == {i \in 0..Min(from, Len(s) - 1) : s[i + 1] = c}
  IN  IF hits = {} THEN -1 ELSE CHOOSE i \in hits : \A j \in hits : j <= i

\* s.includes(c)
Includes(s, c) == \E i \in 1..Len(s) : s[i] = c

(***************************************************************************)
(* splitMessage                                                            *)
(***************************************************************************)
\* lastIndexOf('\n') without its second argument
SplitIdxNoLimit(remaining) ==
  LET idx == LastIndexOf(remaining, NL, Len(remaining))
  IN  IF idx <= 0 THEN MAX_MESSAGE_LENGTH ELSE idx

\* the index the while loop of splitMessage cuts `remaining` at
SplitIdx(remaining) ==
  LET idx == LastIndexOf(remaining, NL, MAX_MESSAGE_LENGTH)
  IN  IF idx <= 0 THEN MAX_MESSAGE_LENGTH ELSE idx

RECURSIVE SplitLoop(_, _)
SplitLoop(chunks, remaining) ==
  IF Len(remaining) > MAX_MESSAGE_LENGTH
  THEN LET splitIdx == SplitIdx(remaining)
       IN  SplitLoop(Append(chunks, Slice(remaining, 0, splitIdx)),
                     SliceFrom(remaining, splitIdx + 1))
  ELSE IF remaining # <<>> THEN Append(chunks, remaining) ELSE chunks

splitMessage(text) ==
  IF Len(text) <= MAX_MESSAGE_LENGTH THEN <<text>> ELSE SplitLoop(<<>>, text)

\* the texts splitMessage() is called with on its own
SplitAlphabet == {"a", "b", NL}
SplitTexts == UNION {[1..n -> SplitAlphabet] : n \in 0..MaxTextLen}

\* splitMessage(text), up to the while loop: the early return for a short text
SplitEnter ==
  /\ split.pc = "call"
  /\ split' = IF Len(split.text) <= MAX_MESSAGE_LENGTH
              THEN [split EXCEPT !.pc = "done", !.chunks = <<split.text>>]
              ELSE [split EXCEPT !.pc = "loop", !.remaining = split.text]
  /\ UNCHANGED <<adapterVars, mentions, route>>

\* one test of the while condition of splitMessage: an iteration of the loop,
\* or the end of the loop and the return.  cuts records, for each iteration,
\* whether lastIndexOf found a newline to cut at
SplitIterate ==
  /\ split.pc = "loop"
  /\ LET remaining == split.remaining
     IN  IF Len(remaining) > MAX_MESSAGE_LENGTH
         THEN LET splitIdx == SplitIdx(remaining)
                  found    == LastIndexOf(remaining, NL, MAX_MESSAGE_LENGTH) > 0
              IN  split' = [split EXCEPT
                              !.chunks = Append(@, Slice(remaining, 0, splitIdx)),
                              !.remaining = SliceFrom(remaining, splitIdx + 1),
                              !.cuts = Append(@, IF found THEN "newline" ELSE "hard")]
         ELSE split' = [split EXCEPT
                          !.pc = "done",
                          !.chunks = IF remaining # <<>> THEN Append(@, remaining) ELSE @]
  /\ UNCHANGED <<adapterVars, mentions, route>>

(***************************************************************************)
(* resolveMentions                                                         *)
(***************************************************************************)
UpperLetters == <<"A","B","C","D","E","F","G","H","I","J","K","L","M",
                  "N","O","P","Q","R","S","T","U","V","W","X","Y","Z">>
LowerLetters == <<"a","b","c","d","e","f","g","h","i","j","k","l","m",
                  "n","o","p","q","r","s","t","u","v","w","x","y","z">>
Digits == {"0","1","2","3","4","5","6","7","8","9"}

\* one character of String.prototype.toLowerCase
LowerChar(c) ==
  IF \E i \in 1..26 : UpperLetters[i] = c
  THEN LowerLetters[CHOOSE i \in 1..26 : UpperLetters[i] = c]
  ELSE c

\* s.toLowerCase()
ToLowerCase(s) == [i \in 1..Len(s) |-> LowerChar(s[i])]

\* \w of a regular expression
IsWordChar(c) ==
  \/ \E i \in 1..26 : UpperLetters[i] = c \/ LowerLetters[i] = c
  \/ c \in Digits
  \/ c = "_"

\* the literal `lit` matches `text` at position p (from 1) under the flag i
MatchesAt(text, p, lit) ==
  /\ p + Len(lit) - 1 <= Len(text)
  /\ \A j \in 1..Len(lit) : LowerChar(text[p + j - 1]) = LowerChar(lit[j])

\* \b between position q and q + 1 of text (q = 0: the start; q = Len: the end)
WordBoundaryAfter(text, q) ==
  LET before == q >= 1 /\ q <= Len(text) /\ IsWordChar(text[q])
      after  == q + 1 <= Len(text) /\ IsWordChar(text[q + 1])
  IN  before # after

\* length of the match of  <@name>|@name\b  at position p, or 0
MentionMatchLen(text, p, name) ==
  IF MatchesAt(text, p, <<"<", "@">> \o name \o <<">">>)
  THEN Len(name) + 3
  ELSE IF /\ MatchesAt(text, p, <<"@">> \o name)
          /\ WordBoundaryAfter(text, p + Len(name))
       THEN Len(name) + 1
       ELSE 0

\* text.replace(pattern, `<@id>`) with the flag g, from position p on
RECURSIVE ReplaceMentions(_, _, _, _)
ReplaceMentions(text, p, name, id) ==
  IF p > Len(text) THEN <<>>
  ELSE LET n == MentionMatchLen(text, p, name)
       IN  IF n > 0
           THEN <<"<", "@">> \o id \o <<">">> \o ReplaceMentions(text, p + n, name, id)
           ELSE <<text[p]>> \o ReplaceMentions(text, p + 1, name, id)

\* the keys of nameToId in insertion order: lower-case names, first occurrence
RECURSIVE NameKeys(_)
NameKeys(cache) ==
  IF cache = <<>> THEN <<>>
  ELSE LET front == NameKeys(SubSeq(cache, 1, Len(cache) - 1))
           name  == ToLowerCase(cache[Len(cache)].name)
       IN  IF \E i \in 1..Len(front) : front[i] = name THEN front
           ELSE Append(front, name)

\* nameToId.get(name): the last cache entry of that lower-case name wins
NameToId(cache, name) ==
  LET hits == {i \in 1..Len(cache) : ToLowerCase(cache[i].name) = name}
  IN  cache[CHOOSE i \in hits : \A j \in hits : j <= i].id

\* names.sort((a, b) => b.length - a.length): stable, longest first
RECURSIVE SortLongestFirst(_)
SortLongestFirst(names) ==
  IF names = <<>> THEN <<>>
  ELSE LET front  == SortLongestFirst(SubSeq(names, 1, Len(names) - 1))
           x      == names[Len(names)]
           before == {i \in 1..Len(front) : Len(front[i]) >= Len(x)}
           k      == Cardinality(before)
       IN  SubSeq(front, 1, k) \o <<x>> \o SubSeq(front, k + 1, Len(front))

RECURSIVE ResolveLoop(_, _, _)
ResolveLoop(text, names, cache) ==
  IF names = <<>> THEN text
  ELSE ResolveLoop(ReplaceMentions(text, 1, Head(names), NameToId(cache, Head(names))),
                   Tail(names), cache)

resolveMentions(text, cache) ==
  IF ~Includes(text, "@") THEN text
  ELSE IF cache = <<>> THEN text
  ELSE ResolveLoop(text, SortLongestFirst(NameKeys(cache)), cache)

\* the display names resolveMentions() is called with on its own:
\* "Matt Weiss", "Matt" and "Matt W."
NameMattWeiss == <<"M", "a", "t", "t", " ", "W", "e", "i", "s", "s">>
NameMatt == <<"M", "a", "t", "t">>
NameMattW == <<"M", "a", "t", "t", " ", "W", ".">>

\* the entries of userInfoCache of those calls
MentionUsers ==
  { [id |-> <<"U", "1">>, name |-> NameMattWeiss, tz |-> "UTC"],
    [id |-> <<"U", "2">>, name |-> NameMatt, tz |-> "UTC"],
    [id |-> <<"U", "3">>, name |-> NameMattW, tz |-> "UTC"] }

\* userInfoCache: the entries in every insertion order
MentionCaches ==
  {c \in UNION {[1..n -> MentionUsers] : n \in 0..Cardinality(MentionUsers)} :
     \A i, j \in 1..Len(c) : c[i] = c[j] => i = j}

\* the pieces the texts are made of: "@Matt Weiss", "@Matt", " hi ",
\* "@Matt W.", "<@matt>" and "s"
MentionPieces ==
  { <<"@">> \o NameMattWeiss, <<"@">> \o NameMatt, <<" ", "h", "i", " ">>,
    <<"@">> \o NameMattW, <<"<", "@", "m", "a", "t", "t", ">">>, <<"s">> }

RECURSIVE Concat(_)
Concat(pieces) ==
  IF pieces = <<>> THEN <<>> ELSE Head(pieces) \o Concat(Tail(pieces))

\* the texts resolveMentions() is called with on its own
MentionTexts ==
  {Concat(ps) : ps \in UNION {[1..n -> MentionPieces] : n \in 0..MaxPieces}}

\* resolveMentions(text), up to the for loop: the two early returns, the
\* reverse map and the sorted names
MentionsEnter ==
  /\ mentions.pc = "call"
  /\ mentions' =
       IF ~Includes(mentions.text, "@")
       THEN [mentions EXCEPT !.pc = "done", !.result = mentions.text]
       ELSE IF NameKeys(mentions.cache) = <<>>
       THEN [mentions EXCEPT !.pc = "done", !.result = mentions.text]
       ELSE [mentions EXCEPT !.pc = "loop", !.result = mentions.text,
                             !.names = SortLongestFirst(NameKeys(mentions.cache))]
  /\ UNCHANGED <<adapterVars, split, route>>

\* one test of the for loop of resolveMentions: text.replace for the next
\* name, or the return
MentionsReplace ==
  /\ mentions.pc = "loop"
  /\ mentions' =
       IF mentions.names = <<>>
       THEN [mentions EXCEPT !.pc = "done"]
       ELSE LET name == Head(mentions.names)
            IN  [mentions EXCEPT
                   !.names = Tail(@),
                   !.result = ReplaceMentions(@, 1, name, NameToId(mentions.cache, name))]
  /\ UNCHANGED <<adapterVars, split, route>>

(***************************************************************************)
(* ownsJid, isConnected and the router (router.ts)                         *)
(***************************************************************************)
\* [A-Z0-9]
IsUpperOrDigit(c) == (\E i \in 1..26 : UpperLetters[i] = c) \/ c \in Digits

\* the position after the longest run of [A-Z0-9] that starts at position p
RECURSIVE ClassRunEnd(_, _)
ClassRunEnd(jid, p) ==
  IF p <= Len(jid) /\ IsUpperOrDigit(jid[p]) THEN ClassRunEnd(jid, p + 1) ELSE p

\* /^[CDG][A-Z0-9]*$/.test(jid)
OwnsJidStar(jid) ==
  /\ Len(jid) >= 1
  /\ jid[1] \in {"C", "D", "G"}
  /\ ClassRunEnd(jid, 2) = Len(jid) + 1

\* ownsJid(jid): /^[CDG][A-Z0-9]+$/.test(jid)
ownsJid(jid) ==
  /\ Len(jid) >= 1
  /\ jid[1] \in {"C", "D", "G"}
  /\ LET end == ClassRunEnd(jid, 2)
     IN  end > 2 /\ end = Len(jid) + 1

\* isConnected() of a channel of the list
isConnected(channel) == channel.connected

\* channels.find(test): the index of the first channel that passes, or 0
First(channels, Test(_)) ==
  LET hits == {i \in 1..Len(channels) : Test(channels[i])}
  IN  IF hits = {} THEN 0 ELSE CHOOSE i \in hits : \A j \in hits : i <= j

\* the find of a routeOutbound that does not ask isConnected()
RouteChannelAnyState(channels, jid) ==
  LET Owns(c) == ownsJid(jid) IN First(channels, Owns)

\* routeOutbound: channels.find((c) => c.ownsJid(jid) && c.isConnected())
RouteChannel(channels, jid) ==
  LET OwnsConnected(c) == ownsJid(jid) /\ isConnected(c) IN First(channels, OwnsConnected)

\* the ids the router is called with: every text of up to MaxJidLen of these
\* characters, and the ids of routing.test.ts
JidAlphabet == {"C", "D", "G", "A", "0", "1", "c", ":"}
\* C012345ABCD, D012345ABCD and unknown:12345
JidChannel == <<"C", "0", "1", "2", "3", "4", "5", "A", "B", "C", "D">>
JidDm == <<"D", "0", "1", "2", "3", "4", "5", "A", "B", "C", "D">>
JidUnknown == <<"u", "n", "k", "n", "o", "w", "n", ":", "1", "2", "3", "4", "5">>
JidTexts ==
  UNION {[1..n -> JidAlphabet] : n \in 0..MaxJidLen}
  \cup {JidChannel, JidDm, JidUnknown}

\* the channel lists the router is called with: adapters, connected or not
ChannelLists ==
  UNION {[1..n -> [connected : BOOLEAN]] : n \in 0..MaxChannels}

\* channels[c].ownsJid(jid) called on its own
OwnsJid(c) ==
  /\ route.pc = "call"
  /\ c \in 1..Len(route.channels)
  /\ route' = [route EXCEPT !.pc = "owns", !.result = ownsJid(route.jid)]
  /\ UNCHANGED <<adapterVars, split, mentions>>

\* routeOutbound(channels, jid, text): sent lists the channels whose
\* sendMessage was called
RouteOutbound ==
  /\ route.pc = "call"
  /\ LET c == RouteChannel(route.channels, route.jid)
     IN  route' = IF c = 0
                  THEN [route EXCEPT !.pc = "routed", !.result = "No channel"]
                  ELSE [route EXCEPT !.pc = "routed", !.sent = <<c>>, !.result = "sent"]
  /\ UNCHANGED <<adapterVars, split, mentions>>

\* findChannel(channels, jid): the index of the channel returned, or undefined
FindChannel ==
  /\ route.pc = "call"
  /\ LET Owns(ch) == ownsJid(route.jid)
         c == First(route.channels, Owns)
     IN  route' = [route EXCEPT !.pc = "found",
                                !.result = IF c = 0 THEN Undefined ELSE c]
  /\ UNCHANGED <<adapterVars, split, mentions>>

(***************************************************************************)
(* Inputs.                                                                 *)
(***************************************************************************)

\* "@m": a mention of the display name m, resolved once m is cached
TextMention == <<"@", "m">>
\* "abc\ndef": longer than MAX_MESSAGE_LENGTH, with a newline in range
TextLong == <<"a", "b", "c", NL, "d", "e", "f">>

\* the arguments sendMessage() is called with
SendInputs ==
  { [jid |-> "C1", text |-> TextLong,    threadTs |-> Undefined],
    [jid |-> "C2", text |-> TextMention, threadTs |-> "100.1"] }

\* the users the platform knows: users.info results
UserM == [id |-> <<"U", "1">>, name |-> <<"m">>, tz |-> "UTC"]
Users == {UserM}

\* the user id auth.test returns for the bot
BotId == <<"U", "B">>

\* an inbound event of the platform.  For an edit the fields but channel are
\* those of event.message; for a deletion ts is deleted_ts and bot is
\* previous_message.bot_id; for a reaction channel and ts are those of
\* event.item, db is what opts.lookupMessage finds ("none", "bot": a bot
\* message, "user") and hist what conversations.history holds; mkdir is how
\* fs.mkdirSync ends when downloadFiles runs for the event
Event(kind, subtype, channel, text, ts, thread_ts, files) ==
  [kind |-> kind, subtype |-> subtype, channel |-> channel, user |-> UserM.id,
   text |-> text, ts |-> ts, thread_ts |-> thread_ts, files |-> files,
   bot |-> FALSE, reply_count |-> 0, event_ts |-> Undefined, reaction |-> "",
   mkdir |-> "ok", db |-> "none", dbContent |-> <<>>, dbThread |-> Undefined,
   hist |-> "empty", histUser |-> <<>>, histText |-> <<>>, histThread |-> Undefined]

\* "<@UB>": the mention of the bot
BotMention == <<"<", "@">> \o BotId \o <<">">>
TextHello == <<"h", "e", "l", "l", "o">>

\* a file whose download answers with a status that is not ok
FileNotOk == [name |-> "f1", url |-> TRUE, size |-> 1, bytes |-> 0, resp |-> "notok"]

\* the scenario of the spec: a mention in a registered channel
MentionHello ==
  Event("app_mention", Undefined, "C1", BotMention \o <<" ">> \o TextHello,
        "100.1", Undefined, <<>>)
\* a mention with no other text and one file
MentionFile ==
  Event("app_mention", Undefined, "C1", BotMention, "101.1", Undefined, <<FileNotOk>>)
\* mentions in a channel that is not registered: one with text and a file,
\* one with no other text
MentionUnregistered ==
  Event("app_mention", Undefined, "C9", BotMention \o <<" ">> \o TextHello,
        "102.1", Undefined, <<FileNotOk>>)
MentionUnregisteredEmpty ==
  Event("app_mention", Undefined, "C9", BotMention, "103.1", Undefined, <<>>)
\* a direct message that is a reply in the thread of 99.1
DmReply == Event("message", Undefined, "D1", TextHello, "104.1", "99.1", <<>>)
\* two edits of the message 100.1 of C1
EditV1 == Event("message", "message_changed", "C1", <<"v", "1">>, "100.1", Undefined, <<>>)
EditV2 == Event("message", "message_changed", "C1", <<"v", "2">>, "100.1", Undefined, <<>>)
\* the deletion of the message 100.1 of C1
DeleteMessage == Event("message", "message_deleted", "C1", <<>>, "100.1", Undefined, <<>>)
\* reactions to the bot message 100.1 of C1: one the local lookup knows, one
\* that conversations.history holds
ReactionDb ==
  [Event("reaction_added", Undefined, "C1", <<>>, "100.1", Undefined, <<>>)
     EXCEPT !.event_ts = "105.1", !.reaction = "tada",
            !.db = "bot", !.dbContent = <<"o", "k", "a", "y">>]
ReactionHistory ==
  [Event("reaction_added", Undefined, "C1", <<>>, "100.1", Undefined, <<>>)
     EXCEPT !.event_ts = "106.1", !.reaction = "eyes",
            !.hist = "message", !.histUser = BotId, !.histText = <<"o", "k">>]

\* the events the platform sends
InboundEvents ==
  {MentionHello, MentionFile, MentionUnregistered, MentionUnregisteredEmpty,
   DmReply, EditV1, EditV2, DeleteMessage, ReactionDb, ReactionHistory}

\* the events the handlers filter by the author of a message, by the author
\* of a reaction and by the registration of the conversation: the edit and
\* the deletion of a bot message (bot_id set) and of a user's message;
\* reactions by a user to a bot message (found by the local lookup, or in the
\* history), to a user's message (the same two ways), to a bot message of a
\* conversation that is not registered, and the bot's own reaction to one of
\* its messages
FilterEvents ==
  { [EditV1 EXCEPT !.bot = TRUE],
    EditV1,
    [DeleteMessage EXCEPT !.bot = TRUE, !.ts = "107.1"],
    DeleteMessage,
    ReactionDb,
    ReactionHistory,
    [ReactionDb EXCEPT !.event_ts = "108.1", !.db = "user"],
    [ReactionHistory EXCEPT !.event_ts = "109.1", !.histUser = UserM.id],
    [ReactionDb EXCEPT !.event_ts = "110.1", !.channel = "C9"],
    [ReactionDb EXCEPT !.event_ts = "111.1", !.user = BotId] }

\* a file of an event: it has a download url or not, size is the size the
\* event declares (0 if it declares none), bytes the length of the body the
\* fetch retrieves, resp how the fetch ends ("ok", "notok", "error")
File(name, url, size, bytes, resp) ==
  [name |-> name, url |-> url, size |-> size, bytes |-> bytes, resp |-> resp]

\* the events with files: a mention with a file of each kind (no url, declared
\* size over the limit, response not ok, fetch error, and two that are
\* stored, one of them longer than declared); a direct message with no text
\* and a file that declares no size and is longer than the limit; the same
\* mention when the directory of its files cannot be made; an edit with no
\* text whose only file is not stored; an edit with text and two files
FileEvents ==
  { Event("app_mention", Undefined, "C1", BotMention \o <<" ">> \o TextHello,
          "100.1", Undefined,
          <<File("a", FALSE, 1, 1, "ok"), File("b", TRUE, 3, 3, "ok"),
            File("c", TRUE, 1, 0, "notok"), File("d", TRUE, 1, 2, "ok"),
            File("e", TRUE, 1, 0, "error"), File("f", TRUE, 2, 2, "ok")>>),
    Event("message", Undefined, "D1", <<>>, "101.1", Undefined,
          <<File("g", TRUE, 0, 3, "ok")>>),
    [Event("app_mention", Undefined, "C1", BotMention \o <<" ">> \o TextHello,
           "102.1", Undefined, <<File("h", TRUE, 1, 1, "ok")>>)
       EXCEPT !.mkdir = "fails"],
    Event("message", "message_changed", "C1", <<>>, "100.1", Undefined,
          <<FileNotOk>>),
    Event("message", "message_changed", "C1", <<"v", "1">>, "100.1", Undefined,
          <<File("e", TRUE, 1, 0, "error"), File("f", TRUE, 2, 2, "ok")>>) }

\* every ts of the model, oldest first
Timeline ==
  <<"99.1", "100.1", "101.1", "102.1", "103.1", "104.1", "105.1", "106.1",
    "107.1", "108.1", "109.1", "110.1", "111.1">>

\* the place of ts in time
TsIndex(ts) == CHOOSE i \in 1..Len(Timeline) : Timeline[i] = ts

\* the messages the platform holds, oldest first; kind is the event the
\* platform sends for the message when the adapter is connected.  In C1: the
\* last message the store knows (100.1); a mention that is the parent of a
\* thread (101.1); a bot message; a message with no mention; a reply to
\* 101.1; a join notice; a reply to 100.1; a bot reply to 101.1.  In D1: a
\* message with a file and no text; a message that mentions the bot
PlatformMessages ==
  << [MentionHello EXCEPT !.thread_ts = "100.1", !.reply_count = 1],
     [Event("app_mention", Undefined, "C1", BotMention \o <<" ">> \o TextHello,
            "101.1", "101.1", <<>>) EXCEPT !.reply_count = 2],
     [Event("message", Undefined, "C1", <<"o", "k">>, "102.1", Undefined, <<>>)
        EXCEPT !.bot = TRUE, !.user = BotId],
     Event("message", Undefined, "C1", TextHello, "103.1", Undefined, <<>>),
     Event("message", Undefined, "C1", TextHello, "104.1", "101.1", <<>>),
     Event("message", "channel_join", "C1", <<"joined">>, "105.1", Undefined, <<>>),
     Event("message", Undefined, "C1", TextHello, "107.1", "100.1", <<>>),
     [Event("message", Undefined, "C1", <<"o", "k">>, "108.1", "101.1", <<>>)
        EXCEPT !.bot = TRUE, !.user = BotId],
     Event("message", "file_share", "D1", <<>>, "109.1", Undefined,
           <<File("g", TRUE, 1, 1, "ok")>>),
     Event("message", Undefined, "D1", BotMention \o <<" ">> \o TextHello,
           "110.1", Undefined, <<>>) >>

\* the conversations catchUpMessages() is called with, each with the ts of
\* the last message the store knows, if any
CatchUpChannels ==
  << [jid |-> "C1", latestTs |-> "100.1"], [jid |-> "D1", latestTs |-> Undefined] >>

\* the messages of PlatformMessages that can arrive as events while
\* catchUpMessages() runs
LiveMessages ==
  {PlatformMessages[i] : i \in {2, 4, 10}}

(***************************************************************************)
(* State after construction.                                               *)
(***************************************************************************)
\* the fields of an adapter just constructed, and no event, call or post yet
InitAdapter ==
  /\ connected = FALSE
  /\ botUserId = <<>>
  /\ outgoingQueue = <<>>
  /\ flushing = FALSE
  /\ channelSyncTimerStarted = FALSE
  /\ userInfoCache = <<>>
  /\ connPc = "idle"
  /\ connectResult = "none"
  /\ connectTriggers = <<>>
  /\ fileCleanupStarted = FALSE
  /\ sends = <<>>
  /\ flushLoops = {}
  /\ posts = <<>>
  /\ fails = 0
  /\ catchUp = [pc |-> "idle", chans |-> <<>>, total |-> 0, run |-> 0,
                oldest |-> Undefined, msgs |-> <<>>, replies |-> <<>>, caught |-> {}]
  /\ events = <<>>
  /\ delivered = <<>>
  /\ metadata = {}
  /\ deleted = {}
  /\ calls = <<>>

\* no splitMessage() call on its own
SplitIdle ==
  [pc |-> "idle", text |-> <<>>, remaining |-> <<>>, chunks |-> <<>>, cuts |-> <<>>]

\* no resolveMentions() call on its own
MentionsIdle ==
  [pc |-> "idle", text |-> <<>>, cache |-> <<>>, names |-> <<>>, result |-> <<>>]

\* no call of the router
RouteIdle ==
  [pc |-> "idle", jid |-> <<>>, channels |-> <<>>, sent |-> <<>>, result |-> Undefined]

Init ==
  /\ InitAdapter
  /\ split = SplitIdle
  /\ mentions = MentionsIdle
  /\ route = RouteIdle

\* state when splitMessage(text) is called on an adapter just constructed
InitSplit ==
  /\ InitAdapter
  /\ \E text \in SplitTexts : split = [SplitIdle EXCEPT !.pc = "call", !.text = text]
  /\ mentions = MentionsIdle
  /\ route = RouteIdle

\* state when resolveMentions(text) is called on an adapter whose identity
\* cache holds some of MentionUsers
InitMentions ==
  /\ InitAdapter
  /\ split = SplitIdle
  /\ \E text \in MentionTexts, cache \in MentionCaches :
       mentions = [MentionsIdle EXCEPT !.pc = "call", !.text = text, !.cache = cache]
  /\ route = RouteIdle

\* state when the router is called with a list of adapters and an id
InitRoute ==
  /\ InitAdapter
  /\ split = SplitIdle
  /\ mentions = MentionsIdle
  /\ \E jid \in JidTexts, channels \in ChannelLists :
       route = [RouteIdle EXCEPT !.pc = "call", !.jid = jid, !.channels = channels]

(***************************************************************************)
(* Outbound delivery: sendMessage                                          *)
(***************************************************************************)
\* an element of outgoingQueue; mid names the sendMessage() call it came from
Item(mid, jid, text, threadTs) ==
  [mid |-> mid, jid |-> jid, text |-> text, threadTs |-> threadTs]

\* outgoingQueue.unshift(item), where the source has push
QueueUnshift(queue, item) == <<item>> \o queue

\* outgoingQueue.push(item)
QueuePush(queue, item) == Append(queue, item)

\* outgoingQueue.pop(), where the source has shift
QueuePop(queue) == <<queue[Len(queue)], SubSeq(queue, 1, Len(queue) - 1)>>

\* outgoingQueue.shift(): the item taken and the queue left
QueueShift(queue) == <<Head(queue), Tail(queue)>>

\* a call of app.client.chat.postMessage, awaiting its result
PostCall(mid, k, jid, chunk, threadTs, via) ==
  [mid |-> mid, k |-> k, jid |-> jid, text |-> chunk, threadTs |-> threadTs,
   via |-> via, st |-> "pending"]

\* sendMessage(jid, text, threadTs), up to its return or its first await
SendMessage(jid, text, threadTs) ==
  /\ Len(sends) < MaxMsgs
  /\ LET mid == Len(sends) + 1
         call == [jid |-> jid, text |-> text, threadTs |-> threadTs]
     IN  IF ~connected
         THEN /\ outgoingQueue' = QueuePush(outgoingQueue, Item(mid, jid, text, threadTs))
              /\ sends' = Append(sends, [call |-> call, rtext |-> text, pc |-> "done",
                                         k |-> 0, post |-> 0, ret |-> "void",
                                         wasConnected |-> FALSE])
              /\ UNCHANGED posts
         ELSE LET rtext  == resolveMentions(text, userInfoCache)
                  chunks == splitMessage(rtext)
              IN  /\ posts' = Append(posts, PostCall(mid, 1, jid, chunks[1], threadTs, "send"))
                  /\ sends' = Append(sends, [call |-> call, rtext |-> rtext, pc |-> "post",
                                             k |-> 1, post |-> Len(posts) + 1,
                                             ret |-> "pending", wasConnected |-> TRUE])
                  /\ UNCHANGED outgoingQueue
  /\ UNCHANGED <<connVars, catchUpVars, restVars, flushing, userInfoCache, flushLoops, fails>>

\* the awaited chat.postMessage of sendMessage resolves
SendPostOk(mid) ==
  /\ mid \in 1..Len(sends)
  /\ sends[mid].pc = "post"
  /\ LET s      == sends[mid]
         chunks == splitMessage(s.rtext)
         ps     == [posts EXCEPT ![s.post].st = "ok"]
     IN  IF s.k < Len(chunks)
         THEN /\ posts' = Append(ps, PostCall(mid, s.k + 1, s.call.jid, chunks[s.k + 1],
                                              s.call.threadTs, "send"))
              /\ sends' = [sends EXCEPT ![mid].k = s.k + 1, ![mid].post = Len(ps) + 1]
         ELSE /\ posts' = ps
              /\ sends' = [sends EXCEPT ![mid].pc = "done", ![mid].ret = "ts"]
  /\ UNCHANGED <<connVars, catchUpVars, restVars, outgoingQueue, flushing, userInfoCache,
                 flushLoops, fails>>

\* a catch block that queues the failed chunk alone, where the source queues
\* the whole text
SendCatchFailedChunk(queue, mid, s) ==
  QueuePush(queue, Item(mid, s.call.jid, splitMessage(s.rtext)[s.k], s.call.threadTs))

\* what the catch block of sendMessage leaves in the queue
SendCatch(queue, mid, s) ==
  QueuePush(queue, Item(mid, s.call.jid, s.rtext, s.call.threadTs))

\* the awaited chat.postMessage of sendMessage rejects
SendPostFails(mid) ==
  /\ fails < MaxFails
  /\ mid \in 1..Len(sends)
  /\ sends[mid].pc = "post"
  /\ posts' = [posts EXCEPT ![sends[mid].post].st = "failed"]
  /\ outgoingQueue' = SendCatch(outgoingQueue, mid, sends[mid])
  /\ sends' = [sends EXCEPT ![mid].pc = "done", ![mid].ret = "void"]
  /\ fails' = fails + 1
  /\ UNCHANGED <<connVars, catchUpVars, restVars, flushing, userInfoCache, flushLoops>>

(***************************************************************************)
(* Outbound delivery: flushOutgoingQueue                                   *)
(***************************************************************************)
\* an early return that does not read the flushing flag
FlushReturnsEarlyUnguarded == Len(outgoingQueue) = 0

\* the early return of flushOutgoingQueue
FlushReturnsEarly == flushing \/ Len(outgoingQueue) = 0

\* a finally that is skipped when the loop is left by an exception
FlushFinallySkippedOnThrow(fl, threw) == IF threw THEN fl ELSE FALSE

\* this.flushing after the finally block of flushOutgoingQueue, which runs
\* when the loop has ended and when a post threw
FlushFinally(fl, threw) == FALSE

\* the head of the while loop, run by one drain loop: `others` are the other
\* loops, ps the posts so far, fl the flushing flag as the loop finds it
FlushWhile(others, ps, fl) ==
  IF Len(outgoingQueue) > 0
  THEN LET shifted == QueueShift(outgoingQueue)
           item    == shifted[1]
           chunks  == splitMessage(item.text)
       IN  /\ outgoingQueue' = shifted[2]
           /\ posts' = Append(ps, PostCall(item.mid, 1, item.jid, chunks[1],
                                           item.threadTs, "flush"))
           /\ flushLoops' = others \cup {[item |-> item, k |-> 1, post |-> Len(ps) + 1,
                                          pc |-> "post"]}
           /\ flushing' = fl
  ELSE \* the loop ends; finally
       /\ flushing' = FlushFinally(fl, FALSE)
       /\ flushLoops' = others
       /\ posts' = ps
       /\ UNCHANGED outgoingQueue

\* flushOutgoingQueue(), up to its return or its first await
FlushEnter ==
  IF FlushReturnsEarly
  THEN UNCHANGED <<outgoingQueue, flushing, flushLoops, posts>>
  ELSE FlushWhile(flushLoops, posts, TRUE)

\* the awaited chat.postMessage of a drain loop resolves
FlushPostOk(loop) ==
  /\ loop \in flushLoops
  /\ loop.pc = "post"
  /\ LET chunks == splitMessage(loop.item.text)
         ps     == [posts EXCEPT ![loop.post].st = "ok"]
         others == flushLoops \ {loop}
     IN  IF loop.k < Len(chunks)
         THEN /\ posts' = Append(ps, PostCall(loop.item.mid, loop.k + 1, loop.item.jid,
                                              chunks[loop.k + 1], loop.item.threadTs,
                                              "flush"))
              /\ flushLoops' = others \cup {[loop EXCEPT !.k = loop.k + 1,
                                                         !.post = Len(ps) + 1]}
              /\ UNCHANGED <<outgoingQueue, flushing>>
         ELSE IF Len(outgoingQueue) > 0
              THEN \* await the SEND_DELAY_MS timer
                   /\ posts' = ps
                   /\ flushLoops' = others \cup {[loop EXCEPT !.pc = "delay"]}
                   /\ UNCHANGED <<outgoingQueue, flushing>>
              ELSE FlushWhile(others, ps, flushing)
  /\ UNCHANGED <<connVars, catchUpVars, restVars, userInfoCache, sends, fails>>

\* the SEND_DELAY_MS timer of a drain loop fires
FlushDelayDone(loop) ==
  /\ loop \in flushLoops
  /\ loop.pc = "delay"
  /\ FlushWhile(flushLoops \ {loop}, posts, flushing)
  /\ UNCHANGED <<connVars, catchUpVars, restVars, userInfoCache, sends, fails>>

\* what a post that throws inside the drain loop leaves in the queue: the item
\* was shifted off and nothing puts it back
FlushThrowQueue(queue, item) == queue

\* a .catch that takes a failed drain for a lost connection
FlushRejectedDisconnects ==
  /\ connected' = FALSE
  /\ UNCHANGED <<botUserId, channelSyncTimerStarted, connPc, connectResult,
                 connectTriggers, fileCleanupStarted>>

\* the .catch of connect() on the promise of flushOutgoingQueue: it logs
FlushRejected == UNCHANGED connVars

\* the awaited chat.postMessage of a drain loop rejects: the exception leaves
\* the loop through finally
FlushPostFails(loop) ==
  /\ fails < MaxFails
  /\ loop \in flushLoops
  /\ loop.pc = "post"
  /\ posts' = [posts EXCEPT ![loop.post].st = "failed"]
  /\ outgoingQueue' = FlushThrowQueue(outgoingQueue, loop.item)
  /\ flushing' = FlushFinally(flushing, TRUE)
  /\ flushLoops' = flushLoops \ {loop}
  /\ fails' = fails + 1
  /\ FlushRejected
  /\ UNCHANGED <<catchUpVars, restVars, userInfoCache, sends>>

(***************************************************************************)
(* Connection lifecycle                                                    *)
(***************************************************************************)
\* connect() starting the drain before the metadata sync and its timer
ConnectStepsDrainFirst(timerStarted) ==
  <<"flushOutgoingQueue", "syncChannelMetadata">>
  \o (IF timerStarted THEN <<>> ELSE <<"setInterval">>)
  \o <<"startFileCleanup">>

\* what connect() starts once connected, in program order
ConnectSteps(timerStarted) ==
  <<"syncChannelMetadata">>
  \o (IF timerStarted THEN <<>> ELSE <<"setInterval">>)
  \o <<"flushOutgoingQueue", "startFileCleanup">>

\* connect(), up to its throw or its first await
ConnectCall(botToken, appToken) ==
  /\ connPc = "idle"
  /\ IF ~botToken \/ ~appToken
     THEN /\ connectResult' = "threw"
          /\ UNCHANGED connPc
     ELSE /\ connectResult' = "pending"
          /\ connPc' = "start"
  /\ UNCHANGED <<connected, botUserId, channelSyncTimerStarted, connectTriggers,
                 fileCleanupStarted, catchUpVars, restVars, outgoingQueue, flushing,
                 userInfoCache, sends, flushLoops, posts, fails>>

\* a connect() that marks the adapter connected once the transport has started
ConnectedAtStart(ok) == IF ok THEN TRUE ELSE connected

\* this.connected when the awaited app.start() has settled: not assigned yet
ConnectedAfterStart(ok) == connected

\* the awaited app.start() settles
ConnectStartReturns(ok) ==
  /\ connPc = "start"
  /\ IF ok
     THEN connPc' = "auth" /\ UNCHANGED connectResult
     ELSE connPc' = "idle" /\ connectResult' = "rejected"
  /\ connected' = ConnectedAfterStart(ok)
  /\ UNCHANGED <<botUserId, channelSyncTimerStarted, connectTriggers,
                 fileCleanupStarted, catchUpVars, restVars, outgoingQueue, flushing,
                 userInfoCache, sends, flushLoops, posts, fails>>

\* the awaited auth.test() rejects
ConnectAuthFails ==
  /\ connPc = "auth"
  /\ connPc' = "idle"
  /\ connectResult' = "rejected"
  /\ UNCHANGED <<connected, botUserId, channelSyncTimerStarted, connectTriggers,
                 fileCleanupStarted, catchUpVars, restVars, outgoingQueue, flushing,
                 userInfoCache, sends, flushLoops, posts, fails>>

\* the awaited auth.test() resolves: the rest of connect()
ConnectAuthOk(userId) ==
  /\ connPc = "auth"
  /\ botUserId' = userId
  /\ connected' = TRUE
  /\ channelSyncTimerStarted' = TRUE
  /\ FlushEnter
  /\ fileCleanupStarted' = TRUE
  /\ connectTriggers' = ConnectSteps(channelSyncTimerStarted)
  /\ connPc' = "idle"
  /\ connectResult' = "resolved"
  /\ UNCHANGED <<catchUpVars, restVars, userInfoCache, sends, fails>>

\* disconnect(): app.stop() is awaited and its errors are ignored
Disconnect ==
  /\ connected
  /\ connected' = FALSE
  /\ UNCHANGED <<botUserId, channelSyncTimerStarted, connPc, connectResult,
                 connectTriggers, fileCleanupStarted, catchUpVars, restVars,
                 outgoingQueue, flushing, userInfoCache, sends, flushLoops, posts, fails>>

(***************************************************************************)
(* Identity cache                                                          *)
(***************************************************************************)
\* resolveUserInfo(user.id) for an id that is not cached: users.info resolved
\* (this.app exists once connect() has run)
ResolveUserInfo(user) ==
  /\ botUserId # <<>>
  /\ \A i \in 1..Len(userInfoCache) : userInfoCache[i].id # user.id
  /\ userInfoCache' = Append(userInfoCache, user)
  /\ UNCHANGED <<connVars, catchUpVars, restVars, outgoingQueue, flushing, sends, flushLoops,
                 posts, fails>>

(***************************************************************************)
(* Inbound events: helpers                                                 *)
(***************************************************************************)
\* \s of a regular expression, and the characters trim() removes
IsSpace(c) == c \in {" ", NL, "\t"}

\* the literal `lit` matches `text` at position p (from 1), case-sensitive
MatchesExact(text, p, lit) ==
  /\ p + Len(lit) - 1 <= Len(text)
  /\ \A j \in 1..Len(lit) : text[p + j - 1] = lit[j]

\* the first position from p on that holds no space, or Len(text) + 1
RECURSIVE SkipSpaces(_, _)
SkipSpaces(text, p) ==
  IF p <= Len(text) /\ IsSpace(text[p]) THEN SkipSpaces(text, p + 1) ELSE p

\* text.replace(/tok\s*/g, ''), from position p on
RECURSIVE RemoveToken(_, _, _)
RemoveToken(text, p, tok) ==
  IF p > Len(text) THEN <<>>
  ELSE IF MatchesExact(text, p, tok)
       THEN RemoveToken(text, SkipSpaces(text, p + Len(tok)), tok)
       ELSE <<text[p]>> \o RemoveToken(text, p + 1, tok)

\* s.trim()
RECURSIVE Trim(_)
Trim(s) ==
  IF s = <<>> THEN s
  ELSE IF IsSpace(s[1]) THEN Trim(Tail(s))
  ELSE IF IsSpace(s[Len(s)]) THEN Trim(SubSeq(s, 1, Len(s) - 1))
  ELSE s

\* text.replace(new RegExp(`<@${this.botUserId}>\\s*`, 'g'), '').trim()
StripBotMention(text, bot) ==
  Trim(RemoveToken(text, 1, <<"<", "@">> \o bot \o <<">">>))

\* this.opts.registeredGroups(): the conversations with a registered group
RegisteredGroups == {"C1", "D1"}

\* channel.startsWith('D'), over the channel ids of the model
StartsWithD(channel) == channel \in {"D1", "D9"}

\* the app is started and delivers events to the handlers connect() registered:
\* from the return of app.start() until disconnect() stops the app
AppRunning == connPc = "auth" \/ connected

\* userInfoCache.get(userId): the index of the entry, or 0
CacheIndex(cache, userId) ==
  IF \E i \in 1..Len(cache) : cache[i].id = userId
  THEN CHOOSE i \in 1..Len(cache) : cache[i].id = userId
  ELSE 0

\* userInfoCache.set(userId, info): a Map keeps the place of a key it has
CacheSet(cache, info) ==
  IF CacheIndex(cache, info.id) > 0
  THEN [cache EXCEPT ![CacheIndex(cache, info.id)] = info]
  ELSE Append(cache, info)

\* the answer of users.info for userId: display name and timezone; a user the
\* platform does not know has the id for a name
UsersInfo(userId) ==
  IF \E u \in Users : u.id = userId
  THEN CHOOSE u \in Users : u.id = userId
  ELSE [id |-> userId, name |-> userId, tz |-> ""]

(***************************************************************************)
(* Inbound events: what a handler does between two awaits                  *)
(***************************************************************************)
\* A handler is a record h: the event ev, the position pc, the text after
\* stripping, the thread_ts it will deliver, and for downloadFiles the index
\* fi of the file being fetched and the files stored so far.  The operators
\* below give the effect of a run of a handler up to its next await:
\*   [h |-> the handler then, msgs |-> the onMessage calls made,
\*    meta |-> the onChatMetadata calls made]
Effect(h, msgs, meta) == [h |-> h, msgs |-> msgs, meta |-> meta]

Returned(h) == [h EXCEPT !.pc = "done"]

\* the handler that runs handleMessageEdit
IsEdit(ev) == ev.kind = "message" /\ ev.subtype = "message_changed"

\* the handler of event ev when it has returned without an await
Handler(ev) ==
  [ev |-> ev, pc |-> "done", text |-> ev.text, threadTs |-> Undefined,
   fi |-> 0, stored |-> <<>>, info |-> [id |-> <<>>, name |-> <<>>, tz |-> ""]]

\* content: text || (files?.length ? '[file attachment]' : '')
Content(text, files) ==
  IF text # <<>> THEN text
  ELSE IF Len(files) > 0 THEN <<"[file attachment]">> ELSE <<>>

\* the argument of opts.onMessage in handleEvent and handleMessageEdit; eid is
\* the event the call was made for, and run is 0: no call of catchUpMessages
InboundMessage(eid, h, info, files) ==
  [eid |-> eid, id |-> h.ev.ts, chat_jid |-> h.ev.channel, sender |-> h.ev.user,
   sender_name |-> info.name, sender_tz |-> info.tz,
   content |-> Content(h.text, files), thread_ts |-> h.threadTs,
   files |-> files, is_reaction |-> FALSE, run |-> 0]

\* the snippet of the reacted-to content
Snippet(content) ==
  IF Len(content) > SnippetLimit
  THEN SubSeq(content, 1, SnippetLimit) \o <<"...">>
  ELSE content

\* the argument of opts.onMessage in the reaction_added handler
ReactionMessage(eid, h, info) ==
  [eid |-> eid, id |-> <<"reaction-", h.ev.event_ts>>, chat_jid |-> h.ev.channel,
   sender |-> h.ev.user, sender_name |-> info.name, sender_tz |-> info.tz,
   content |-> IF Snippet(h.text) # <<>>
               THEN <<"[reacted with :", h.ev.reaction, ": to: \"">>
                    \o Snippet(h.text) \o <<"\"]">>
               ELSE <<"[reacted with :", h.ev.reaction, ":]">>,
   thread_ts |-> h.threadTs, files |-> <<>>, is_reaction |-> TRUE, run |-> 0]

\* handleMessageEdit: if (!text && !files?.length) return
EditDropsEmpty(text, files) == text = <<>> /\ Len(files) = 0

\* the end of handleEvent and of handleMessageEdit, once the files are stored
Finish(eid, h, info, files) ==
  IF IsEdit(h.ev) /\ EditDropsEmpty(h.text, files)
  THEN Effect(Returned(h), <<>>, {})
  ELSE Effect(Returned(h), <<InboundMessage(eid, h, info, files)>>, {})

\* downloadFiles: the first file from index i on that is fetched (it has a url
\* and its declared size is within the limit), or Len(files) + 1
RECURSIVE NextFetch(_, _)
NextFetch(files, i) ==
  IF i > Len(files) THEN i
  ELSE IF files[i].url /\ files[i].size <= MAX_FILE_SIZE THEN i
  ELSE NextFetch(files, i + 1)

\* downloadFiles from file i on, up to the await of a fetch or to its return
Download(eid, h, info, i, stored) ==
  LET n == NextFetch(h.ev.files, i)
  IN  IF n <= Len(h.ev.files)
      THEN Effect([h EXCEPT !.pc = "download", !.fi = n, !.stored = stored,
                            !.info = info], <<>>, {})
      ELSE Finish(eid, h, info, stored)

\* downloadFiles(channel, ts, files), up to its first await: fs.mkdirSync is
\* outside every try, so its error rejects downloadFiles and the handler that
\* awaits it
DownloadFiles(eid, h, info) ==
  IF h.ev.mkdir = "fails"
  THEN Effect([h EXCEPT !.pc = "rejected", !.info = info], <<>>, {})
  ELSE Download(eid, h, info, 1, <<>>)

\* handleEvent: if (groups[channel])
Gate(channel) == channel \in RegisteredGroups

\* the handler from the return of resolveUserInfo on
AfterLookup(eid, h, info) ==
  IF h.ev.kind = "reaction_added"
  THEN Effect(Returned(h), <<ReactionMessage(eid, h, info)>>, {})
  ELSE IF IsEdit(h.ev)
  THEN IF Len(h.ev.files) > 0 THEN DownloadFiles(eid, h, info)
       ELSE Finish(eid, h, info, <<>>)
  ELSE \* handleEvent
       LET meta == {[eid |-> eid, channel |-> h.ev.channel]}
           rest == IF Gate(h.ev.channel)
                   THEN IF Len(h.ev.files) > 0 THEN DownloadFiles(eid, h, info)
                        ELSE Finish(eid, h, info, <<>>)
                   ELSE Effect(Returned(h), <<>>, {})
       IN  Effect(rest.h, rest.msgs, meta)

\* resolveUserInfo(userId), up to its return from the cache or to the await of
\* users.info
Lookup(eid, h) ==
  LET i == CacheIndex(userInfoCache, h.ev.user)
  IN  IF i > 0 THEN AfterLookup(eid, h, userInfoCache[i])
      ELSE Effect([h EXCEPT !.pc = "userinfo"], <<>>, {})

\* handleEvent(channel, userId, rawText, ts, isMention, threadTs, eventFiles),
\* up to its first await
HandleEvent(eid, ev, isMention, threadTs) ==
  LET text == IF isMention /\ botUserId # <<>>
              THEN StripBotMention(ev.text, botUserId) ELSE ev.text
      h    == [Handler(ev) EXCEPT !.text = text, !.threadTs = threadTs]
  IN  IF text = <<>> /\ Len(ev.files) = 0
      THEN Effect(Returned(h), <<>>, {})
      ELSE Lookup(eid, h)

\* handleMessageEdit(event), up to its first await; the fields of ev are
\* those of event.message, but channel
HandleMessageEdit(eid, ev) ==
  LET text == IF botUserId # <<>> THEN StripBotMention(ev.text, botUserId) ELSE ev.text
      h    == [Handler(ev) EXCEPT !.text = text, !.threadTs = ev.thread_ts]
  IN  IF ev.bot THEN Effect(Returned(h), <<>>, {})
      ELSE IF ev.channel \notin RegisteredGroups THEN Effect(Returned(h), <<>>, {})
      ELSE IF ev.user = <<>> THEN Effect(Returned(h), <<>>, {})
      ELSE Lookup(eid, h)

\* handleMessageDelete without its check of previous_message.bot_id
HandleMessageDeleteAnyAuthor(eid, ev) ==
  IF ev.channel \notin RegisteredGroups THEN {}
  ELSE IF ev.ts = Undefined THEN {}
  ELSE {[eid |-> eid, channel |-> ev.channel, id |-> ev.ts]}

\* handleMessageDelete(event): the opts.onMessageDelete calls it makes; ts is
\* event.deleted_ts || event.previous_message.ts, bot is
\* event.previous_message.bot_id
HandleMessageDelete(eid, ev) ==
  IF ev.channel \notin RegisteredGroups THEN {}
  ELSE IF ev.ts = Undefined THEN {}
  ELSE IF ev.bot THEN {}
  ELSE {[eid |-> eid, channel |-> ev.channel, id |-> ev.ts]}

\* the reaction_added handler from the reacted-to content on
ReactionWithContent(eid, h, content, threadTs) ==
  Lookup(eid, [h EXCEPT !.text = content,
                        !.threadTs = IF threadTs = Undefined THEN h.ev.ts ELSE threadTs])

\* the reaction_added handler, up to its first await; channel and ts are
\* those of event.item, which is a message
HandleReaction(eid, ev) ==
  LET h == Handler(ev)
  IN  IF ev.user = <<>> \/ ev.user = botUserId THEN Effect(Returned(h), <<>>, {})
      ELSE IF ev.channel \notin RegisteredGroups THEN Effect(Returned(h), <<>>, {})
      ELSE IF ev.db = "user" THEN Effect(Returned(h), <<>>, {})
      ELSE IF ev.db = "bot" /\ ev.dbContent # <<>>
           THEN ReactionWithContent(eid, h, ev.dbContent, ev.dbThread)
           ELSE Effect([h EXCEPT !.pc = "history"], <<>>, {})

(***************************************************************************)
(* Inbound events: the handlers                                            *)
(***************************************************************************)
\* the handler has run up to an await or to its return
Arrive(r) ==
  /\ events' = Append(events, r.h)
  /\ delivered' = delivered \o r.msgs
  /\ metadata' = metadata \cup r.meta

\* the handler of event eid has run from an await to the next or to its return
Resume(eid, r) ==
  /\ events' = [events EXCEPT ![eid] = r.h]
  /\ delivered' = delivered \o r.msgs
  /\ metadata' = metadata \cup r.meta

\* app.event('app_mention')
AppMentionEvent(ev) ==
  /\ AppRunning
  /\ Len(events) < MaxEvents
  /\ ev.kind = "app_mention"
  /\ LET eid == Len(events) + 1
     IN  IF ev.user = <<>>
         THEN Arrive(Effect(Handler(ev), <<>>, {}))
         ELSE Arrive(HandleEvent(eid, ev, TRUE,
                                 IF ev.thread_ts # Undefined THEN ev.thread_ts ELSE ev.ts))
  /\ UNCHANGED <<connVars, catchUpVars, opVars, splitVars, deleted, outgoingQueue,
                 flushing, userInfoCache, sends, flushLoops, posts, fails>>

\* app.event('message'): edits, deletions and new direct messages
MessageEvent(ev) ==
  /\ AppRunning
  /\ Len(events) < MaxEvents
  /\ ev.kind = "message"
  /\ LET eid == Len(events) + 1
     IN  IF ev.subtype = "message_changed"
         THEN Arrive(HandleMessageEdit(eid, ev)) /\ UNCHANGED deleted
         ELSE IF ev.subtype = "message_deleted"
         THEN /\ Arrive(Effect(Handler(ev), <<>>, {}))
              /\ deleted' = deleted \cup HandleMessageDelete(eid, ev)
         ELSE IF \/ ev.subtype # Undefined \/ ev.bot
                 \/ ~StartsWithD(ev.channel)
                 \/ (ev.user = <<>> /\ Len(ev.files) = 0)
         THEN Arrive(Effect(Handler(ev), <<>>, {})) /\ UNCHANGED deleted
         ELSE Arrive(HandleEvent(eid, ev, FALSE, Undefined)) /\ UNCHANGED deleted
  /\ UNCHANGED <<connVars, catchUpVars, opVars, splitVars, outgoingQueue,
                 flushing, userInfoCache, sends, flushLoops, posts, fails>>

\* app.event('reaction_added')
ReactionAddedEvent(ev) ==
  /\ AppRunning
  /\ Len(events) < MaxEvents
  /\ ev.kind = "reaction_added"
  /\ Arrive(HandleReaction(Len(events) + 1, ev))
  /\ UNCHANGED <<connVars, catchUpVars, opVars, splitVars, deleted, outgoingQueue,
                 flushing, userInfoCache, sends, flushLoops, posts, fails>>

\* the awaited users.info of resolveUserInfo resolves: the answer is cached
UserInfoOk(eid) ==
  /\ eid \in 1..Len(events)
  /\ events[eid].pc = "userinfo"
  /\ LET info == UsersInfo(events[eid].ev.user)
     IN  /\ userInfoCache' = CacheSet(userInfoCache, info)
         /\ Resume(eid, AfterLookup(eid, events[eid], info))
  /\ UNCHANGED <<connVars, catchUpVars, opVars, splitVars, deleted, outgoingQueue,
                 flushing, sends, flushLoops, posts, fails>>

\* a catch of resolveUserInfo that stores what it returns
CacheAfterFailureStored(cache, info) == CacheSet(cache, info)

\* the cache after the catch of resolveUserInfo: it returns { name: userId,
\* tz: '' } and stores nothing
CacheAfterFailure(cache, info) == cache

\* the awaited users.info rejects: the id stands for the name, nothing is cached
UserInfoFails(eid) ==
  /\ eid \in 1..Len(events)
  /\ events[eid].pc = "userinfo"
  /\ LET user == events[eid].ev.user
         info == [id |-> user, name |-> user, tz |-> ""]
     IN  /\ userInfoCache' = CacheAfterFailure(userInfoCache, info)
         /\ Resume(eid, AfterLookup(eid, events[eid], info))
  /\ UNCHANGED <<connVars, catchUpVars, opVars, splitVars, deleted, outgoingQueue,
                 flushing, sends, flushLoops, posts, fails>>

\* the awaited fetch of downloadFiles settles, as the file says (resp): the
\* bytes are stored, or the file is left out (response not ok, or an error)
DownloadSettles(eid) ==
  /\ eid \in 1..Len(events)
  /\ events[eid].pc = "download"
  /\ LET h      == events[eid]
         file   == h.ev.files[h.fi]
         stored == IF file.resp = "ok"
                   THEN Append(h.stored, [name |-> file.name, size |-> file.bytes])
                   ELSE h.stored
     IN  Resume(eid, Download(eid, h, h.info, h.fi + 1, stored))
  /\ UNCHANGED <<connVars, catchUpVars, opVars, splitVars, deleted, outgoingQueue,
                 flushing, userInfoCache, sends, flushLoops, posts, fails>>

\* the awaited conversations.history of the reaction_added handler resolves
\* with the message the event says (hist)
ReactionHistoryOk(eid) ==
  /\ eid \in 1..Len(events)
  /\ events[eid].pc = "history"
  /\ LET h  == events[eid]
         ev == h.ev
     IN  IF ev.hist = "empty" \/ ev.histUser # botUserId
         THEN Resume(eid, Effect(Returned(h), <<>>, {}))
         ELSE Resume(eid, ReactionWithContent(eid, h, ev.histText, ev.histThread))
  /\ UNCHANGED <<connVars, catchUpVars, opVars, splitVars, deleted, outgoingQueue,
                 flushing, userInfoCache, sends, flushLoops, posts, fails>>

\* the awaited conversations.history rejects: the handler logs and returns
ReactionHistoryFails(eid) ==
  /\ eid \in 1..Len(events)
  /\ events[eid].pc = "history"
  /\ Resume(eid, Effect(Returned(events[eid]), <<>>, {}))
  /\ UNCHANGED <<connVars, catchUpVars, opVars, splitVars, deleted, outgoingQueue,
                 flushing, userInfoCache, sends, flushLoops, posts, fails>>

(***************************************************************************)
(* Catch-up                                                                *)
(***************************************************************************)
\* limit of conversations.history and conversations.replies
HistoryLimit == 200

\* the first n elements of s
Take(s, n) == SubSeq(s, 1, Min(Len(s), n))

Reverse(s) == [i \in 1..Len(s) |-> s[Len(s) + 1 - i]]

\* conversations.history({channel, oldest, limit, inclusive: false}): the
\* messages of the conversation that are in no thread or are the parent of
\* one, newer than oldest, newest first
History(jid, oldest) ==
  Take(Reverse(SelectSeq(PlatformMessages,
                 LAMBDA m : /\ m.channel = jid
                            /\ m.thread_ts \in {Undefined, m.ts}
                            /\ TsIndex(m.ts) > TsIndex(oldest))),
       HistoryLimit)

\* conversations.replies({channel, ts, oldest, limit, inclusive: false}): the
\* parent, then the replies of its thread newer than oldest, oldest first
Replies(jid, ts, oldest) ==
  Take(SelectSeq(PlatformMessages,
         LAMBDA m : /\ m.channel = jid
                    /\ \/ m.ts = ts
                       \/ m.thread_ts = ts /\ TsIndex(m.ts) > TsIndex(oldest)),
       HistoryLimit)

\* oldest without a cursor of the store: a later call would start at the
\* newest instant
OldestsAdvancing(latestTs, run) ==
  IF run > 1 THEN {Timeline[Len(Timeline)]}
  ELSE IF latestTs # Undefined THEN {latestTs} ELSE {"99.1", "109.1"}

\* oldest = latestTs || String(Date.now() / 1000 - 12 * 60 * 60): the ts
\* given, or an instant that depends on the clock; run is the number of the
\* call
Oldests(latestTs, run) ==
  IF latestTs # Undefined THEN {latestTs} ELSE {"99.1", "109.1"}

\* catchUpMessages(channels), up to its first await
CatchUpCall ==
  /\ connected
  /\ catchUp.pc = "idle"
  /\ catchUp.run < MaxRuns
  /\ catchUp' = [catchUp EXCEPT !.pc = "history", !.chans = CatchUpChannels,
                                !.total = 0, !.run = @ + 1]
  /\ UNCHANGED <<connVars, restVars, outgoingQueue, flushing, userInfoCache, sends,
                 flushLoops, posts, fails>>

\* the for loop of catchUpMessages moves to the next conversation, or returns
\* totalCaughtUp
CatchUpNextChannel(c, total) ==
  IF Len(c.chans) > 1
  THEN [c EXCEPT !.pc = "history", !.chans = Tail(c.chans), !.total = total,
                 !.oldest = Undefined, !.msgs = <<>>, !.replies = <<>>]
  ELSE [c EXCEPT !.pc = "idle", !.chans = <<>>, !.total = total,
                 !.oldest = Undefined, !.msgs = <<>>, !.replies = <<>>]

\* the filters of the loop over the messages of the history
CatchUpSkips(msg) ==
  \/ msg.bot
  \/ msg.subtype # Undefined /\ msg.subtype # "file_share"
  \/ msg.ts = Undefined
  \/ msg.user = <<>>

\* the filters of the loop over the replies, without the skip of the parent
CatchUpSkipsReplyKeepsParent(reply, msg) == CatchUpSkips(reply)

\* the filters of the loop over the replies of msg
CatchUpSkipsReply(reply, msg) == reply.ts = msg.ts \/ CatchUpSkips(reply)

\* (msg.text || '').includes(`<@${this.botUserId}>`)
IncludesBotMention(text) ==
  \E p \in 1..Len(text) : MatchesExact(text, p, <<"<", "@">> \o botUserId \o <<">">>)

\* threadTs of a message of the history
CatchUpThread(msg) ==
  IF msg.thread_ts # Undefined /\ msg.thread_ts # msg.ts THEN msg.thread_ts
  ELSE IF IncludesBotMention(msg.text) \/ msg.reply_count > 0 THEN msg.ts
  ELSE Undefined

\* the argument of opts.onMessage in catchUpMessages, in call number run; it
\* has no files
CatchUpMessage(run, jid, msg, info, threadTs) ==
  LET text == IF botUserId # <<>> THEN StripBotMention(msg.text, botUserId)
              ELSE msg.text
  IN  [eid |-> 0, id |-> msg.ts, chat_jid |-> jid, sender |-> msg.user,
       sender_name |-> info.name, sender_tz |-> info.tz,
       content |-> IF text # <<>> THEN text ELSE <<"[message]">>,
       thread_ts |-> threadTs, files |-> <<>>, is_reaction |-> FALSE, run |-> run]

\* The operators below give the effect of a run of catchUpMessages up to its
\* next await or to its return, as Effect(c, out, meta): the record of the
\* call then, the onMessage calls and the onChatMetadata calls made.  c.msgs
\* are the messages of the history from the current one on, c.replies the
\* replies from the current one on, cache the identity cache.
RECURSIVE CatchUpLoop(_, _, _, _)
RECURSIVE CatchUpDeliver(_, _, _, _, _)

\* the loop over the messages of the history, from the head of c.msgs
CatchUpLoop(c, cache, out, meta) ==
  IF c.msgs = <<>> THEN Effect(CatchUpNextChannel(c, c.total), out, meta)
  ELSE IF CatchUpSkips(Head(c.msgs))
  THEN CatchUpLoop([c EXCEPT !.msgs = Tail(c.msgs)], cache, out, meta)
  ELSE LET i == CacheIndex(cache, Head(c.msgs).user)
       IN  IF i = 0 THEN Effect([c EXCEPT !.pc = "userinfo"], out, meta)
           ELSE CatchUpDeliver(c, cache, cache[i], out, meta)

\* the body of that loop from the return of resolveUserInfo on
CatchUpDeliver(c, cache, info, out, meta) ==
  LET msg  == Head(c.msgs)
      jid  == Head(c.chans).jid
      out2 == Append(out, CatchUpMessage(c.run, jid, msg, info, CatchUpThread(msg)))
      met2 == meta \cup {[eid |-> 0, channel |-> jid]}
      c2   == [c EXCEPT !.total = @ + 1]
  IN  IF msg.reply_count > 0
      THEN Effect([c2 EXCEPT !.pc = "replies"], out2, met2)
      ELSE CatchUpLoop([c2 EXCEPT !.msgs = Tail(c.msgs)], cache, out2, met2)

RECURSIVE CatchUpReplyLoop(_, _, _, _)
RECURSIVE CatchUpDeliverReply(_, _, _, _, _)

\* the loop over the replies of the message Head(c.msgs), from the head of
\* c.replies
CatchUpReplyLoop(c, cache, out, meta) ==
  IF c.replies = <<>>
  THEN CatchUpLoop([c EXCEPT !.msgs = Tail(c.msgs)], cache, out, meta)
  ELSE IF CatchUpSkipsReply(Head(c.replies), Head(c.msgs))
  THEN CatchUpReplyLoop([c EXCEPT !.replies = Tail(c.replies)], cache, out, meta)
  ELSE LET i == CacheIndex(cache, Head(c.replies).user)
       IN  IF i = 0 THEN Effect([c EXCEPT !.pc = "replyinfo"], out, meta)
           ELSE CatchUpDeliverReply(c, cache, cache[i], out, meta)

\* the body of that loop from the return of resolveUserInfo on
CatchUpDeliverReply(c, cache, info, out, meta) ==
  LET reply == Head(c.replies)
      jid   == Head(c.chans).jid
      out2  == Append(out, CatchUpMessage(c.run, jid, reply, info, Head(c.msgs).ts))
  IN  CatchUpReplyLoop([c EXCEPT !.total = @ + 1, !.replies = Tail(c.replies)],
                       cache, out2, meta)

\* catchUpMessages has run from an await to the next or to its return
CatchUpResume(r) ==
  /\ catchUp' = r.h
  /\ delivered' = delivered \o r.msgs
  /\ metadata' = metadata \cup r.meta

\* the awaited conversations.history resolves
CatchUpHistoryOk(oldest) ==
  /\ catchUp.pc = "history"
  /\ oldest \in Oldests(Head(catchUp.chans).latestTs, catchUp.run)
  /\ CatchUpResume(CatchUpLoop(
       [catchUp EXCEPT !.oldest = oldest,
                       !.msgs = Reverse(History(Head(catchUp.chans).jid, oldest))],
       userInfoCache, <<>>, {}))
  /\ UNCHANGED <<connVars, events, deleted, opVars, splitVars, outgoingQueue, flushing,
                 userInfoCache, sends, flushLoops, posts, fails>>

\* a catch around the whole loop over the conversations: the call ends
CatchUpRethrown(c) ==
  [c EXCEPT !.pc = "idle", !.chans = <<>>, !.oldest = Undefined, !.msgs = <<>>,
            !.replies = <<>>,
            !.caught = @ \cup {[run |-> c.run, jid |-> Head(c.chans).jid,
                                parent |-> Undefined]}]

\* the catch of catchUpMessages around one conversation: it logs (caught
\* keeps what was logged), and the loop goes on with the next conversation
CatchUpCaught(c) ==
  CatchUpNextChannel(
    [c EXCEPT !.caught = @ \cup {[run |-> c.run, jid |-> Head(c.chans).jid,
                                  parent |-> Undefined]}],
    c.total)

\* the awaited conversations.history rejects
CatchUpHistoryFails ==
  /\ catchUp.pc = "history"
  /\ catchUp' = CatchUpCaught(catchUp)
  /\ UNCHANGED <<connVars, restVars, outgoingQueue, flushing, userInfoCache, sends,
                 flushLoops, posts, fails>>

\* the awaited conversations.replies resolves
CatchUpRepliesOk ==
  /\ catchUp.pc = "replies"
  /\ CatchUpResume(CatchUpReplyLoop(
       [catchUp EXCEPT !.replies = Replies(Head(catchUp.chans).jid,
                                           Head(catchUp.msgs).ts, catchUp.oldest)],
       userInfoCache, <<>>, {}))
  /\ UNCHANGED <<connVars, events, deleted, opVars, splitVars, outgoingQueue, flushing,
                 userInfoCache, sends, flushLoops, posts, fails>>

\* the awaited conversations.replies rejects: the catch around the replies of
\* one message logs, and the loop over the messages goes on
CatchUpRepliesFails ==
  /\ catchUp.pc = "replies"
  /\ CatchUpResume(CatchUpLoop(
       [catchUp EXCEPT !.msgs = Tail(catchUp.msgs),
                       !.caught = @ \cup {[run |-> catchUp.run,
                                           jid |-> Head(catchUp.chans).jid,
                                           parent |-> Head(catchUp.msgs).ts]}],
       userInfoCache, <<>>, {}))
  /\ UNCHANGED <<connVars, events, deleted, opVars, splitVars, outgoingQueue, flushing,
                 userInfoCache, sends, flushLoops, posts, fails>>

\* the awaited users.info of resolveUserInfo, called for a message or for a
\* reply, resolves (ok: the answer is cached) or rejects (the id stands for
\* the name)
CatchUpUserInfoSettles(ok) ==
  /\ catchUp.pc \in {"userinfo", "replyinfo"}
  /\ LET user  == IF catchUp.pc = "userinfo" THEN Head(catchUp.msgs).user
                  ELSE Head(catchUp.replies).user
         info  == IF ok THEN UsersInfo(user) ELSE [id |-> user, name |-> user, tz |-> ""]
         cache == IF ok THEN CacheSet(userInfoCache, info) ELSE userInfoCache
     IN  /\ userInfoCache' = cache
         /\ IF catchUp.pc = "userinfo"
            THEN CatchUpResume(CatchUpDeliver(catchUp, cache, info, <<>>, {}))
            ELSE CatchUpResume(CatchUpDeliverReply(catchUp, cache, info, <<>>, {}))
  /\ UNCHANGED <<connVars, events, deleted, opVars, splitVars, outgoingQueue, flushing,
                 sends, flushLoops, posts, fails>>

(***************************************************************************)
(* addReaction, removeReaction, sendFile                                   *)
(***************************************************************************)
\* the public operations that make one platform call inside try/catch
Ops == {"addReaction", "removeReaction", "sendFile"}

\* connect() has passed its token check once: this.app exists
AppCreated ==
  \/ connPc # "idle"
  \/ connectResult \in {"resolved", "rejected"}
  \/ botUserId # <<>>

\* addReaction / removeReaction / sendFile, up to the await of the platform call
\* (reactions.add, reactions.remove, files.uploadV2)
OpCall(op) ==
  /\ Len(calls) < MaxCalls
  /\ AppCreated
  /\ calls' = Append(calls, [op |-> op, result |-> "pending"])
  /\ UNCHANGED <<connVars, catchUpVars, inboundVars, splitVars, outgoingQueue, flushing,
                 userInfoCache, sends, flushLoops, posts, fails>>

\* the awaited platform call resolves: the operation logs and returns
OpOk(i) ==
  /\ i \in 1..Len(calls)
  /\ calls[i].result = "pending"
  /\ calls' = [calls EXCEPT ![i].result = "resolved"]
  /\ UNCHANGED <<connVars, catchUpVars, inboundVars, splitVars, outgoingQueue, flushing,
                 userInfoCache, sends, flushLoops, posts, fails>>

\* how the operation settles when its catch block has run: it logs and throws
\* the error again
OpCatch == "rejected"

\* the awaited platform call rejects
OpFails(i) ==
  /\ i \in 1..Len(calls)
  /\ calls[i].result = "pending"
  /\ calls' = [calls EXCEPT ![i].result = OpCatch]
  /\ UNCHANGED <<connVars, catchUpVars, inboundVars, splitVars, outgoingQueue, flushing,
                 userInfoCache, sends, flushLoops, posts, fails>>

(***************************************************************************)
(* Specifications                                                          *)
(***************************************************************************)
\* every step but the call of sendMessage
Core ==
  \/ \E mid \in 1..MaxMsgs : SendPostOk(mid)
  \/ \E mid \in 1..MaxMsgs : SendPostFails(mid)
  \/ \E loop \in flushLoops : FlushPostOk(loop)
  \/ \E loop \in flushLoops : FlushDelayDone(loop)
  \/ \E loop \in flushLoops : FlushPostFails(loop)
  \/ \E botToken \in BOOLEAN, appToken \in BOOLEAN : ConnectCall(botToken, appToken)
  \/ \E ok \in BOOLEAN : ConnectStartReturns(ok)
  \/ ConnectAuthFails
  \/ ConnectAuthOk(BotId)
  \/ Disconnect

\* the outbound delivery queue and the connection lifecycle
Next ==
  \/ \E in \in SendInputs : SendMessage(in.jid, in.text, in.threadTs)
  \/ Core

Spec == Init /\ [][Next]_vars

\* the steps of catchUpMessages
CatchUpSteps ==
  \/ \E oldest \in {Timeline[i] : i \in 1..Len(Timeline)} : CatchUpHistoryOk(oldest)
  \/ CatchUpHistoryFails
  \/ CatchUpRepliesOk
  \/ CatchUpRepliesFails
  \/ \E ok \in BOOLEAN : CatchUpUserInfoSettles(ok)

\* the connection lifecycle with the drain and the catch-up that follow it;
\* sendMessage is called with one text only and catchUpMessages once
NextCatchUp ==
  \/ SendMessage("C2", TextMention, "100.1")
  \/ Core
  \/ catchUp.run = 0 /\ CatchUpCall
  \/ CatchUpSteps

SpecCatchUp == Init /\ [][NextCatchUp]_vars

\* the public operations: connect, disconnect, sendMessage (one text), the
\* drain that connect starts, addReaction, removeReaction, sendFile
NextOps ==
  \/ SendMessage("C2", TextMention, "100.1")
  \/ Core
  \/ \E op \in Ops : OpCall(op)
  \/ \E i \in 1..MaxCalls : OpOk(i)
  \/ \E i \in 1..MaxCalls : OpFails(i)

SpecOps == Init /\ [][NextOps]_vars

\* the inbound events and their handlers, with the connection lifecycle of an
\* adapter that has both tokens
NextInbound ==
  \/ ConnectCall(TRUE, TRUE)
  \/ \E ok \in BOOLEAN : ConnectStartReturns(ok)
  \/ ConnectAuthFails
  \/ ConnectAuthOk(BotId)
  \/ Disconnect
  \/ \E ev \in InboundEvents : AppMentionEvent(ev)
  \/ \E ev \in InboundEvents : MessageEvent(ev)
  \/ \E ev \in InboundEvents : ReactionAddedEvent(ev)
  \/ \E eid \in 1..MaxEvents : UserInfoOk(eid)
  \/ \E eid \in 1..MaxEvents : UserInfoFails(eid)
  \/ \E eid \in 1..MaxEvents : DownloadSettles(eid)
  \/ \E eid \in 1..MaxEvents : ReactionHistoryOk(eid)
  \/ \E eid \in 1..MaxEvents : ReactionHistoryFails(eid)

SpecInbound == Init /\ [][NextInbound]_vars

\* the handlers of edits, deletions and reactions on the events of
\* FilterEvents, with the connection lifecycle of an adapter that has both
\* tokens
NextFilters ==
  \/ ConnectCall(TRUE, TRUE)
  \/ \E ok \in BOOLEAN : ConnectStartReturns(ok)
  \/ ConnectAuthFails
  \/ ConnectAuthOk(BotId)
  \/ Disconnect
  \/ \E ev \in FilterEvents : MessageEvent(ev)
  \/ \E ev \in FilterEvents : ReactionAddedEvent(ev)
  \/ \E eid \in 1..MaxEvents : UserInfoOk(eid)
  \/ \E eid \in 1..MaxEvents : UserInfoFails(eid)
  \/ \E eid \in 1..MaxEvents : ReactionHistoryOk(eid)
  \/ \E eid \in 1..MaxEvents : ReactionHistoryFails(eid)

SpecFilters == Init /\ [][NextFilters]_vars

\* the handlers of new messages and edits on the events of FileEvents, with
\* the connection lifecycle of an adapter that has both tokens
NextFiles ==
  \/ ConnectCall(TRUE, TRUE)
  \/ \E ok \in BOOLEAN : ConnectStartReturns(ok)
  \/ ConnectAuthFails
  \/ ConnectAuthOk(BotId)
  \/ Disconnect
  \/ \E ev \in FileEvents : AppMentionEvent(ev)
  \/ \E ev \in FileEvents : MessageEvent(ev)
  \/ \E eid \in 1..MaxEvents : UserInfoOk(eid)
  \/ \E eid \in 1..MaxEvents : UserInfoFails(eid)
  \/ \E eid \in 1..MaxEvents : DownloadSettles(eid)

SpecFiles == Init /\ [][NextFiles]_vars

\* catchUpMessages called up to MaxRuns times, with the connection lifecycle
\* of an adapter that has both tokens
NextReconcile ==
  \/ ConnectCall(TRUE, TRUE)
  \/ \E ok \in BOOLEAN : ConnectStartReturns(ok)
  \/ ConnectAuthFails
  \/ ConnectAuthOk(BotId)
  \/ Disconnect
  \/ CatchUpCall
  \/ CatchUpSteps

SpecReconcile == Init /\ [][NextReconcile]_vars

\* catchUpMessages called once, with the events of the messages that arrive
\* after the call
NextLiveCatchUp ==
  \/ ConnectCall(TRUE, TRUE)
  \/ ConnectStartReturns(TRUE)
  \/ ConnectAuthOk(BotId)
  \/ catchUp.run = 0 /\ CatchUpCall
  \/ CatchUpSteps
  \/ catchUp.run > 0 /\ \E ev \in LiveMessages : AppMentionEvent(ev)
  \/ catchUp.run > 0 /\ \E ev \in LiveMessages : MessageEvent(ev)
  \/ \E eid \in 1..MaxEvents : UserInfoOk(eid)
  \/ \E eid \in 1..MaxEvents : UserInfoFails(eid)

SpecLiveCatchUp == Init /\ [][NextLiveCatchUp]_vars

\* splitMessage() called with each text of SplitTexts
NextSplit == SplitEnter \/ SplitIterate

SpecSplit == InitSplit /\ [][NextSplit]_vars

\* resolveMentions() called with each text of MentionTexts and each cache
NextMentions == MentionsEnter \/ MentionsReplace

SpecMentions == InitMentions /\ [][NextMentions]_vars

\* ownsJid, routeOutbound and findChannel called with each id and list
NextRoute ==
  \/ \E c \in 1..MaxChannels : OwnsJid(c)
  \/ RouteOutbound
  \/ FindChannel

SpecRoute == InitRoute /\ [][NextRoute]_vars

(***************************************************************************)
(* Properties of the outbound delivery queue                               *)
(***************************************************************************)
\* the chunks the platform is to receive for the message of call mid
ChunksOf(mid) == splitMessage(sends[mid].rtext)

\* every chunk of the message of call mid has been posted
FullyPosted(mid) ==
  \A k \in 1..Len(ChunksOf(mid)) :
    \E i \in 1..Len(posts) :
      /\ posts[i].mid = mid
      /\ posts[i].k = k
      /\ posts[i].st = "ok"
      /\ posts[i].text = ChunksOf(mid)[k]

InQueue(mid) == \E i \in 1..Len(outgoingQueue) : outgoingQueue[i].mid = mid

BeingPosted(mid) ==
  \/ sends[mid].pc = "post"
  \/ \E loop \in flushLoops : loop.pc = "post" /\ loop.item.mid = mid

\* this step is the rejection of the post a drain loop awaits
FlushPostFailed(loop) ==
  /\ loop \in flushLoops
  /\ loop.pc = "post"
  /\ posts[loop.post].st = "pending"
  /\ posts'[loop.post].st = "failed"

\* this step is the rejection of the post sendMessage call mid awaits
SendPostFailed(mid) ==
  /\ mid \in 1..Len(sends)
  /\ sends[mid].pc = "post"
  /\ posts[sends[mid].post].st = "pending"
  /\ posts'[sends[mid].post].st = "failed"

\* C1: no message accepted by sendMessage() is ever lost: each one has been
\* fully posted, is held in the outgoing queue, or is being posted.
C1_NoMessageLost ==
  \A mid \in 1..Len(sends) : FullyPosted(mid) \/ InQueue(mid) \/ BeingPosted(mid)

\* C2: when a post fails inside the drain loop the item goes to the back of
\* the queue and the loop goes on; the loop ends only on an empty queue.
C2_FailedItemRequeued ==
  [][ /\ \A loop \in flushLoops :
           FlushPostFailed(loop) =>
             /\ Len(outgoingQueue') > 0
             /\ outgoingQueue'[Len(outgoingQueue')].mid = loop.item.mid
             /\ flushing'
             /\ flushLoops' # {}
      /\ (flushing /\ ~flushing') => Len(outgoingQueue') = 0 ]_vars

\* C3: a sendMessage() that queues its message because a post failed while
\* connected triggers a drain: a drain loop is running when it returns.
C3_FailedSendTriggersDrain ==
  [][ \A mid \in 1..Len(sends) :
        (SendPostFailed(mid) /\ connected) => (flushing' /\ flushLoops' # {}) ]_vars

\* C4: with no failed post, the posts of one conversation are issued in the
\* order sendMessage() accepted their messages.
C4_OrderWithinConversation ==
  fails = 0 =>
    \A i, j \in 1..Len(posts) :
      (i < j /\ posts[i].jid = posts[j].jid) => posts[i].mid <= posts[j].mid

\* C5: sendMessage() while not connected appends exactly one item (jid, text,
\* threadTs) to the back of the queue, posts nothing and returns no handle.
C5_DisconnectedSendEnqueues ==
  [][ (Len(sends') = Len(sends) + 1 /\ ~connected) =>
        LET mid == Len(sends')
            s   == sends'[mid]
        IN  /\ outgoingQueue' = Append(outgoingQueue,
                                       Item(mid, s.call.jid, s.call.text, s.call.threadTs))
            /\ posts' = posts
            /\ flushLoops' = flushLoops
            /\ s.pc = "done"
            /\ s.ret = "void" ]_vars

\* two messages queued while not connected, the long one behind the other
C5_Witness ==
  /\ ~connected
  /\ Len(outgoingQueue) = 2
  /\ outgoingQueue[1].mid = 1 /\ outgoingQueue[2].mid = 2
  /\ outgoingQueue[2].text = TextLong
  /\ outgoingQueue[1].threadTs = "100.1"
  /\ posts = <<>>

\* C6: with no failed post, the drain posts the queued items in the order
\* they were enqueued, each item's chunks in order.
C6_DrainIsFifo ==
  fails = 0 =>
    \A i, j \in 1..Len(posts) :
      (i < j /\ posts[i].via = "flush" /\ posts[j].via = "flush") =>
        \/ posts[i].mid < posts[j].mid
        \/ posts[i].mid = posts[j].mid /\ posts[i].k < posts[j].k

\* two messages queued while not connected have both been posted by the drain
C6_Witness ==
  /\ fails = 0
  /\ Len(sends) = 2
  /\ ~sends[1].wasConnected /\ ~sends[2].wasConnected
  /\ FullyPosted(1) /\ FullyPosted(2)
  /\ \A i \in 1..Len(posts) : posts[i].via = "flush"

C8_FailedSendRequeuesWhole ==
  /\ [][ \A mid \in 1..Len(sends) :
           SendPostFailed(mid) =>
             /\ outgoingQueue' = Append(outgoingQueue,
                                        Item(mid, sends[mid].call.jid, sends[mid].rtext,
                                             sends[mid].call.threadTs))
             /\ sends'[mid].pc = "done"
             /\ sends'[mid].ret = "void" ]_vars
  /\ [](\A i \in 1..Len(posts) :
          posts[i].via = "flush" =>
            /\ posts[i].k <= Len(ChunksOf(posts[i].mid))
            /\ posts[i].text = ChunksOf(posts[i].mid)[posts[i].k]
            /\ posts[i].k > 1 =>
                 \E h \in 1..(i - 1) :
                   /\ posts[h].via = "flush"
                   /\ posts[h].mid = posts[i].mid
                   /\ posts[h].k = posts[i].k - 1
                   /\ posts[h].st = "ok")

\* the second chunk of a connected send failed; the drain has posted the
\* message again from its first chunk
C8_Witness ==
  \E i, j, l \in 1..Len(posts) :
    /\ i < j /\ j < l
    /\ posts[i].mid = posts[j].mid /\ posts[j].mid = posts[l].mid
    /\ posts[i].via = "send" /\ posts[i].k = 1 /\ posts[i].st = "ok"
    /\ posts[j].via = "send" /\ posts[j].k = 2 /\ posts[j].st = "failed"
    /\ posts[l].via = "flush" /\ posts[l].k = 2 /\ posts[l].st = "ok"

(***************************************************************************)
(* Properties of the connection lifecycle                                  *)
(***************************************************************************)
\* the place of step in the steps of the last successful connect(), or 0
StepIndex(step) ==
  IF \E i \in 1..Len(connectTriggers) : connectTriggers[i] = step
  THEN CHOOSE i \in 1..Len(connectTriggers) : connectTriggers[i] = step
  ELSE 0

C10_FailuresKeepConnected ==
  [][ ( \/ \E loop \in flushLoops : FlushPostFailed(loop)
        \/ /\ catchUp.pc = "history"
           /\ catchUp' # catchUp
           /\ catchUp'.total = catchUp.total )
      => /\ connected' = connected
         /\ connectResult' = connectResult
         /\ connPc' = connPc ]_vars

\* connected, after a post of the drain failed and the history fetch of the
\* first conversation of the catch-up failed
C10_Witness ==
  /\ connected
  /\ connectResult = "resolved"
  /\ \E i \in 1..Len(posts) : posts[i].via = "flush" /\ posts[i].st = "failed"
  /\ catchUp.pc = "history"
  /\ Len(catchUp.chans) = 1
  /\ catchUp.total = 0

\* C11: a connect() that finds a token missing throws at once and leaves the
\* adapter as it was: not connected if it was not, the queue, the timers and
\* the drain untouched; the adapter becomes connected only in the step that
\* ends the auth check, which is awaited only after the transport has started.
C11_MissingTokenThrowsClean ==
  [][ /\ (connectResult # "threw" /\ connectResult' = "threw") =>
           /\ connPc = "idle" /\ connPc' = "idle"
           /\ connected' = connected
           /\ botUserId' = botUserId
           /\ outgoingQueue' = outgoingQueue
           /\ channelSyncTimerStarted' = channelSyncTimerStarted
           /\ fileCleanupStarted' = fileCleanupStarted
           /\ flushing' = flushing
           /\ flushLoops' = flushLoops
           /\ posts' = posts
      /\ (~connected /\ connected') => (connPc = "auth" /\ connectResult' = "resolved")
      /\ (connPc # "auth" /\ connPc' = "auth") => connPc = "start" ]_vars

\* connect() has thrown for a missing token while a message waits in the
\* queue, after an earlier connect() had succeeded and disconnect() was called
C11_Witness ==
  /\ connectResult = "threw"
  /\ ~connected
  /\ botUserId = BotId
  /\ Len(outgoingQueue) = 1
  /\ ~flushing

(***************************************************************************)
(* Properties of the public operations                                     *)
(***************************************************************************)
\* C12: sendMessage, addReaction, removeReaction and sendFile never raise an
\* error to their caller: a failed platform call is absorbed, so no call of
\* them ends rejected.
C12_OperationsNeverThrow ==
  /\ \A i \in 1..Len(calls) : calls[i].result # "rejected"
  /\ \A mid \in 1..Len(sends) : sends[mid].ret \in {"pending", "void", "ts"}

(***************************************************************************)
(* Properties of splitMessage                                              *)
(***************************************************************************)
\* the chunks from the k-th on, joined, with a newline put back after each
\* chunk that was cut at a newline and nothing after a chunk cut at the limit
RECURSIVE Rejoin(_, _, _)
Rejoin(chunks, cuts, k) ==
  IF k > Len(chunks) /\ k > Len(cuts) THEN <<>>
  ELSE (IF k <= Len(chunks) THEN chunks[k] ELSE <<>>)
       \o (IF k <= Len(cuts) /\ cuts[k] = "newline" THEN <<NL>> ELSE <<>>)
       \o Rejoin(chunks, cuts, k + 1)

\* C13: for a text longer than the limit, the chunks of splitMessage joined
\* with a newline put back at each newline cut, and nothing at a hard cut,
\* are the text again: no character is lost.
C13_ChunksReconstructText ==
  (split.pc = "done" /\ Len(split.text) > MAX_MESSAGE_LENGTH) =>
    Rejoin(split.chunks, split.cuts, 1) = split.text

\* C14: every chunk of splitMessage is at most MAX_MESSAGE_LENGTH long, and
\* each iteration of its loop leaves a strictly shorter remaining text, so the
\* loop ends.
C14_ChunksWithinLimit ==
  /\ [](\A k \in 1..Len(split.chunks) : Len(split.chunks[k]) <= MAX_MESSAGE_LENGTH)
  /\ [][ (split.pc = "loop" /\ split'.pc = "loop") =>
           Len(split'.remaining) < Len(split.remaining) ]_vars

\* a text cut twice, at a newline each time, into three chunks
C14_Witness ==
  /\ split.pc = "done"
  /\ Len(split.text) > MAX_MESSAGE_LENGTH
  /\ split.cuts = <<"newline", "newline">>
  /\ Len(split.chunks) = 3

(***************************************************************************)
(* Properties of the inbound events                                        *)
(***************************************************************************)
\* the event is handled by the live new-message path (handleEvent)
IsNewMessage(ev) ==
  \/ ev.kind = "app_mention"
  \/ ev.kind = "message" /\ ev.subtype = Undefined

\* the onMessage calls made for event eid, as indices of delivered
DeliveriesOf(eid) == {i \in 1..Len(delivered) : delivered[i].eid = eid}

\* the policy of the Thread Resolver: parent reference, mention, reply children
ThreadPolicy(ev) ==
  IF ev.thread_ts # Undefined /\ ev.thread_ts # ev.ts THEN ev.thread_ts
  ELSE IF ev.kind = "app_mention" THEN ev.ts
  ELSE IF ev.reply_count > 0 THEN ev.ts
  ELSE Undefined

\* C15: every message delivered by the live new-message path, for a mention
\* or for a direct message, has the thread_ts the Thread Resolver policy gives:
\* the parent if the event refers to another message as its parent, else its
\* own ts if it is a mention, else its own ts if it has replies, else none.
C15_ThreadKeyFollowsPolicy ==
  \A i \in 1..Len(delivered) :
    LET ev == events[delivered[i].eid].ev
    IN  IsNewMessage(ev) => delivered[i].thread_ts = ThreadPolicy(ev)

\* C16: a mention of the bot with no parent reference, in a registered
\* conversation, with text beside the mention, is delivered once its handler
\* has returned: one onMessage call, with the event's ts as thread_ts and the
\* text without the mention token as content.
C16_MentionDelivered ==
  \A eid \in 1..Len(events) :
    LET ev == events[eid].ev
    IN  ( /\ ev.kind = "app_mention"
          /\ ev.thread_ts = Undefined
          /\ ev.channel \in RegisteredGroups
          /\ StripBotMention(ev.text, BotId) # <<>>
          /\ events[eid].pc = "done" ) =>
        /\ Cardinality(DeliveriesOf(eid)) = 1
        /\ \A i \in DeliveriesOf(eid) :
             /\ delivered[i].thread_ts = ev.ts
             /\ delivered[i].content = StripBotMention(ev.text, BotId)

\* C17: of two edits of the same message with different content, the
\* onMessage call of the edit that arrived first is not made after the
\* onMessage call of the edit that arrived second.
C17_LatestEditWins ==
  \A i, j \in 1..Len(delivered) :
    LET e1 == events[delivered[i].eid].ev
        e2 == events[delivered[j].eid].ev
    IN  ( /\ i < j
          /\ IsEdit(e1) /\ IsEdit(e2)
          /\ e1.ts = e2.ts /\ e1.channel = e2.channel
          /\ e1.text # e2.text ) =>
        delivered[i].eid < delivered[j].eid

\* C18: opts.onChatMetadata has been called for every inbound event whose
\* handler has returned: new message, edit, deletion or reaction, registered
\* conversation or not, delivered or dropped.
C18_MetadataForEveryEvent ==
  \A eid \in 1..Len(events) :
    events[eid].pc = "done" => \E m \in metadata : m.eid = eid

\* C19: a new-message event in a conversation that is not registered starts no
\* download and is not delivered, and opts.onChatMetadata has been called for
\* it once its handler has returned.
C19_UnregisteredOnlyMetadata ==
  \A eid \in 1..Len(events) :
    LET ev == events[eid].ev
    IN  (IsNewMessage(ev) /\ ev.channel \notin RegisteredGroups) =>
        /\ events[eid].pc # "download"
        /\ events[eid].stored = <<>>
        /\ DeliveriesOf(eid) = {}
        /\ events[eid].pc = "done" => \E m \in metadata : m.eid = eid

\* C20: every message delivered by the live new-message path has a content
\* that is not empty or at least one stored file.
C20_DeliveredNotEmpty ==
  \A i \in 1..Len(delivered) :
    IsNewMessage(events[delivered[i].eid].ev) =>
      delivered[i].content # <<>> \/ Len(delivered[i].files) > 0

(***************************************************************************)
(* Properties of the filters on edits, deletions and reactions             *)
(***************************************************************************)
\* the opts.onMessageDelete calls made for event eid
DeletionsOf(eid) == {d \in deleted : d.eid = eid}

\* C21: the edit of a message a bot wrote causes no onMessage call and the
\* deletion of one no onMessageDelete call; the deletion of a message that no
\* bot wrote, in a registered conversation, causes exactly one onMessageDelete
\* call, with the id of the conversation and the id of the message.
C21_BotAuthoredNotPropagated ==
  \A eid \in 1..Len(events) :
    LET ev == events[eid].ev
    IN  /\ (IsEdit(ev) /\ ev.bot) => DeliveriesOf(eid) = {}
        /\ (ev.subtype = "message_deleted" /\ ev.bot) => DeletionsOf(eid) = {}
        /\ ( /\ ev.subtype = "message_deleted"
             /\ ~ev.bot
             /\ ev.channel \in RegisteredGroups ) =>
           DeletionsOf(eid) = {[eid |-> eid, channel |-> ev.channel, id |-> ev.ts]}

\* the deletion of a user's message was passed on, and after it the deletion
\* of a bot message was handled
C21_Witness ==
  /\ Len(events) = 2
  /\ events[1].ev.subtype = "message_deleted" /\ ~events[1].ev.bot
  /\ events[2].ev.subtype = "message_deleted" /\ events[2].ev.bot
  /\ Cardinality(deleted) = 1

\* C22: a reaction causes an onMessage call only if the message reacted to was
\* written by the bot, the conversation is registered and the reaction is not
\* the bot's own; the local lookup and the history fetch decide alike.
C22_ReactionOnlyOnBotMessage ==
  \A i \in 1..Len(delivered) :
    LET ev == events[delivered[i].eid].ev
    IN  delivered[i].is_reaction =>
          /\ ev.user # BotId
          /\ ev.channel \in RegisteredGroups
          /\ \/ ev.db = "bot"
             \/ ev.db = "none" /\ ev.hist = "message" /\ ev.histUser = BotId

(***************************************************************************)
(* Properties of downloadFiles                                             *)
(***************************************************************************)
\* C23: every file passed to onMessage has a size, the length of the body
\* retrieved, of at most MAX_FILE_SIZE, whatever size the event declared.
C23_StoredSizeWithinLimit ==
  \A i \in 1..Len(delivered) :
    \A k \in 1..Len(delivered[i].files) :
      delivered[i].files[k].size <= MAX_FILE_SIZE

\* the files of the event that are to be stored: those with a url, a declared
\* size within the limit and a fetch that ends ok, in the order of the event
KeptFiles(files) ==
  SelectSeq(files, LAMBDA f : f.url /\ f.size <= MAX_FILE_SIZE /\ f.resp = "ok")

RunDeliveries(run, jid) ==
  SelectSeq(delivered, LAMBDA d : d.run = run /\ d.chat_jid = jid)

\* call number run of catchUpMessages has returned and none of its fetches
\* failed
RunComplete(run) ==
  /\ run \in 1..catchUp.run
  /\ run = catchUp.run => catchUp.pc = "idle"
  /\ \A f \in catchUp.caught : f.run # run

\* the messages of the conversation jid newer than oldest that no bot wrote
\* and that are no notice of the platform, oldest first
Missed(jid, oldest) ==
  SelectSeq(PlatformMessages,
            LAMBDA m : /\ m.channel = jid
                       /\ TsIndex(m.ts) > TsIndex(oldest)
                       /\ ~m.bot
                       /\ m.subtype \in {Undefined, "file_share"})

\* the thread rule of the catch-up: the parent if the message refers to
\* another message as its parent, else its own ts if it mentions the bot or
\* has replies, else none
ThreadRule(m) ==
  IF m.thread_ts # Undefined /\ m.thread_ts # m.ts THEN m.thread_ts
  ELSE IF \/ \E p \in 1..Len(m.text) : MatchesExact(m.text, p, BotMention)
          \/ m.reply_count > 0
       THEN m.ts
  ELSE Undefined

\* C25: a call of catchUpMessages for C1 with latestTs 100.1 that has returned
\* with no failed fetch has delivered exactly the messages of C1 newer than
\* 100.1 that no bot wrote and that are no notice (file_share kept), oldest
\* first, each with the thread_ts of the thread rule.
C25_DeliversMissedInOrder ==
  \A run \in 1..catchUp.run :
    RunComplete(run) =>
      LET got == RunDeliveries(run, "C1")
          exp == Missed("C1", "100.1")
      IN  /\ Len(got) = Len(exp)
          /\ \A k \in 1..Len(got) :
               /\ got[k].id = exp[k].ts
               /\ got[k].thread_ts = ThreadRule(exp[k])

\* C26: no message is delivered both by the handler of its event and by
\* catchUpMessages: over the two paths onMessage is called at most once for a
\* message of a conversation.
C26_NoDuplicateAcrossPaths ==
  \A i, j \in 1..Len(delivered) :
    (delivered[i].run = 0 /\ delivered[j].run > 0) =>
      ~ /\ delivered[i].chat_jid = delivered[j].chat_jid
        /\ delivered[i].id = delivered[j].id

\* C27: catchUpMessages and the handler of the event treat a message alike:
\* for a message whose event has been handled and whose conversation a
\* returned call of catchUpMessages recovered, either both delivered it, with
\* the same thread_ts, content and files, or neither did.
C27_CatchUpNormalizesAsLive ==
  \A eid \in 1..Len(events) :
    LET ev   == events[eid].ev
        live == {i \in 1..Len(delivered) : delivered[i].eid = eid}
        back == {j \in 1..Len(delivered) :
                   /\ delivered[j].run > 0
                   /\ delivered[j].chat_jid = ev.channel
                   /\ delivered[j].id = ev.ts}
    IN  (events[eid].pc = "done" /\ catchUp.run > 0 /\ catchUp.pc = "idle"
         /\ catchUp.caught = {}) =>
        /\ (live = {}) <=> (back = {})
        /\ \A i \in live, j \in back :
             /\ delivered[i].thread_ts = delivered[j].thread_ts
             /\ delivered[i].content = delivered[j].content
             /\ delivered[i].files = delivered[j].files

\* call number run of catchUpMessages has returned
RunReturned(run) ==
  /\ run \in 1..catchUp.run
  /\ run = catchUp.run => catchUp.pc = "idle"

\* the ids catchUpMessages is to deliver for the messages tops of the
\* conversation jid, in its order: each message, then the replies of its
\* thread unless the fetch of its replies is among the failures caught
RECURSIVE ExpectedIds(_, _, _, _)
ExpectedIds(tops, jid, oldest, caught) ==
  IF tops = <<>> THEN <<>>
  ELSE LET t       == Head(tops)
           replies == SelectSeq(Missed(jid, oldest),
                                LAMBDA m : m.thread_ts = t.ts /\ m.ts # t.ts)
       IN  <<t.ts>>
           \o (IF \E f \in caught : f.jid = jid /\ f.parent = t.ts THEN <<>>
               ELSE [k \in 1..Len(replies) |-> replies[k].ts])
           \o ExpectedIds(Tail(tops), jid, oldest, caught)

\* C28: a failed history fetch costs the messages of its conversation only
\* and a failed fetch of replies the replies of its thread only: a call of
\* catchUpMessages that has returned has delivered nothing for a conversation
\* whose history fetch failed and, for every other conversation, each message
\* of its history and the replies of each thread whose fetch did not fail;
\* the call returns, and the number it returns is the number of its onMessage
\* calls.
C28_FailuresIsolated ==
  \A run \in 1..catchUp.run :
    RunReturned(run) =>
      LET caught == {f \in catchUp.caught : f.run = run}
          ids(jid) == [k \in 1..Len(RunDeliveries(run, jid)) |->
                         RunDeliveries(run, jid)[k].id]
      IN  /\ \A n \in 1..Len(CatchUpChannels) :
               LET ch == CatchUpChannels[n]
               IN  IF \E f \in caught : f.jid = ch.jid /\ f.parent = Undefined
                   THEN ids(ch.jid) = <<>>
                   ELSE \E oldest \in Oldests(ch.latestTs, run) :
                          ids(ch.jid) =
                            ExpectedIds(
                              SelectSeq(Missed(ch.jid, oldest),
                                        LAMBDA m : m.thread_ts \in {Undefined, m.ts}),
                              ch.jid, oldest, caught)
          /\ run = catchUp.run =>
               catchUp.total = Len(SelectSeq(delivered, LAMBDA d : d.run = run))

\* two calls have returned: in the first the history fetch of C1 failed and
\* the messages of D1 were delivered; in the second the fetch of the replies
\* of 101.1 failed and the messages 101.1 and 103.1 of C1 were delivered
C28_Witness ==
  /\ catchUp.pc = "idle"
  /\ catchUp.run = 2
  /\ [run |-> 1, jid |-> "C1", parent |-> Undefined] \in catchUp.caught
  /\ Len(RunDeliveries(1, "D1")) > 0
  /\ [run |-> 2, jid |-> "C1", parent |-> "101.1"] \in catchUp.caught
  /\ Len(RunDeliveries(2, "C1")) = 2
  /\ catchUp.total > 2

\* what a store that keeps one row for each id of a conversation takes from
\* the onMessage calls of call number run for the conversation jid
Rows(run, jid) ==
  [k \in 1..Len(RunDeliveries(run, jid)) |->
     [id        |-> RunDeliveries(run, jid)[k].id,
      content   |-> RunDeliveries(run, jid)[k].content,
      thread_ts |-> RunDeliveries(run, jid)[k].thread_ts]]

\* C29: two calls of catchUpMessages with the same latestTs for a
\* conversation, both returned with no failed fetch, deliver for it the same
\* ids with the same content and thread_ts, in the same order: a store that
\* keeps one row for each id holds after the second what it held after the
\* first.
C29_CatchUpIdempotent ==
  \A r1, r2 \in 1..catchUp.run :
    (RunComplete(r1) /\ RunComplete(r2)) =>
      \A n \in 1..Len(CatchUpChannels) :
        CatchUpChannels[n].latestTs # Undefined =>
          Rows(r1, CatchUpChannels[n].jid) = Rows(r2, CatchUpChannels[n].jid)

\* two calls have returned with no failed fetch, each with the three messages
\* of C1 delivered
C29_Witness ==
  /\ catchUp.pc = "idle"
  /\ catchUp.run = 2
  /\ catchUp.caught = {}
  /\ Len(Rows(1, "C1")) = 3
  /\ Len(Rows(2, "C1")) = 3

\* C30: for a message of the history that has replies, once the fetch of its
\* replies has been handled with no failure, each reply that no bot wrote
\* and that is no notice has been delivered exactly once in that call, with
\* the ts of the parent as thread_ts, and the parent exactly once.
C30_RepliesDeliveredOnce ==
  \A run \in 1..catchUp.run :
    LET jid    == "C1"
        got    == RunDeliveries(run, jid)
        parent == PlatformMessages[2]
        made(ts) == {k \in 1..Len(got) : got[k].id = ts}
    IN  ( /\ RunReturned(run)
          /\ \A f \in catchUp.caught : f.run = run => f.jid # jid ) =>
        /\ Cardinality(made(parent.ts)) = 1
        /\ \A n \in 1..Len(PlatformMessages) :
             LET m == PlatformMessages[n]
             IN  ( /\ m.channel = jid
                   /\ m.thread_ts = parent.ts /\ m.ts # parent.ts ) =>
                 IF m.bot \/ m.subtype \notin {Undefined, "file_share"}
                 THEN made(m.ts) = {}
                 ELSE /\ Cardinality(made(m.ts)) = 1
                      /\ \A k \in made(m.ts) : got[k].thread_ts = parent.ts

\* a call has returned after the replies of 101.1 were fetched: the reply
\* 104.1 was delivered right after its parent
C30_Witness ==
  /\ catchUp.pc = "idle"
  /\ catchUp.run = 1
  /\ catchUp.caught = {}
  /\ Len(RunDeliveries(1, "C1")) = 3
  /\ RunDeliveries(1, "C1")[1].id = "101.1"
  /\ RunDeliveries(1, "C1")[2].id = "104.1"
  /\ RunDeliveries(1, "C1")[2].thread_ts = "101.1"

(***************************************************************************)
(* Properties of resolveUserInfo                                           *)
(***************************************************************************)
\* C31: a users.info call that fails does not fail the handler that awaits
\* it: no fallback is ever in the cache; every message delivered has the name
\* users.info gives or, after a failed call, the id of its sender; the
\* handler that leaves the await goes on to the files or returns, and when
\* it returns it has delivered its message (in a registered conversation,
\* but an edit left without text), as has every new message whose handler
\* returns from the files; and an event that needs the name of a sender who
\* is not in the cache awaits users.info again, delivering nothing before.
C31_LookupFailureFallsBack ==
  /\ [](\A i \in 1..Len(userInfoCache) :
          userInfoCache[i] = UsersInfo(userInfoCache[i].id))
  /\ [](\A i \in 1..Len(delivered) :
          delivered[i].sender_name \in
            {UsersInfo(delivered[i].sender).name, delivered[i].sender})
  /\ [](\A eid \in 1..Len(events) :
          (events[eid].pc = "done" /\ events[eid].fi > 0 /\ ~IsEdit(events[eid].ev))
            => DeliveriesOf(eid) # {})
  /\ [][ \A eid \in 1..Len(events) :
           (events[eid].pc = "userinfo" /\ events'[eid].pc # "userinfo") =>
           /\ events'[eid].pc \in {"done", "download"}
           /\ ( /\ events'[eid].pc = "done"
                /\ Gate(events[eid].ev.channel)
                /\ ~(IsEdit(events[eid].ev) /\ events[eid].text = <<>>) ) =>
              \E i \in (Len(delivered) + 1)..Len(delivered') :
                /\ delivered'[i].eid = eid
                /\ delivered'[i].sender = events[eid].ev.user ]_vars
  /\ [][ \A eid \in (Len(events) + 1)..Len(events') :
           ( /\ CacheIndex(userInfoCache, events'[eid].ev.user) = 0
             /\ events'[eid].pc # "userinfo" ) =>
           /\ events'[eid].pc \in {"done", "history"}
           /\ delivered' = delivered ]_vars

\* two mentions by the same sender in a registered conversation: the lookup
\* for the first failed and it was delivered under the id of the sender;
\* the second awaits a lookup of its own
C31_Witness ==
  /\ Len(events) = 2
  /\ events[1].pc = "done" /\ events[2].pc = "userinfo"
  /\ events[1].ev.user = events[2].ev.user
  /\ userInfoCache = <<>>
  /\ \E i \in DeliveriesOf(1) : delivered[i].sender_name = events[1].ev.user

(***************************************************************************)
(* Properties of resolveMentions                                           *)
(***************************************************************************)
\* the cached name (lower case) mentioned at position p of text: <@name>, or
\* @name followed by the end of the text or by a character that is no word
\* character
MentionedAt(text, p, cache) ==
  {n \in {NameKeys(cache)[i] : i \in 1..Len(NameKeys(cache))} :
     \/ MatchesAt(text, p, <<"<", "@">> \o n \o <<">">>)
     \/ /\ MatchesAt(text, p, <<"@">> \o n)
        /\ p + Len(n) + 1 <= Len(text) => ~IsWordChar(text[p + Len(n) + 1])}

\* the positions text.replace(pattern, ...) finds a match of the pattern of
\* name at, from position p on
RECURSIVE MatchStarts(_, _, _)
MatchStarts(text, p, name) ==
  IF p > Len(text) THEN {}
  ELSE LET n == MentionMatchLen(text, p, name)
       IN  IF n > 0 THEN {p} \cup MatchStarts(text, p + n, name)
           ELSE MatchStarts(text, p + 1, name)

\* "@Matt Weiss hi @Matt"
TextMattWeissHiMatt ==
  <<"@">> \o NameMattWeiss \o <<" ", "h", "i", " ", "@">> \o NameMatt

\* C32: resolveMentions matches the cached names longest first.  With "Matt
\* Weiss" (U1) and "Matt" (U2) cached, "@Matt Weiss hi @Matt" becomes
\* "<@U1> hi <@U2>"; the replacement made for a name never starts where a
\* longer cached name is mentioned; and it never matches the inside of a
\* token <@...>.
C32_LongestNameFirst ==
  /\ []( ( /\ mentions.pc = "done"
           /\ mentions.text = TextMattWeissHiMatt
           /\ {mentions.cache[i].name : i \in 1..Len(mentions.cache)}
                = {NameMattWeiss, NameMatt} ) =>
         mentions.result = <<"<", "@", "U", "1", ">", " ", "h", "i", " ",
                             "<", "@", "U", "2", ">">> )
  /\ [][ (mentions.pc = "loop" /\ mentions.names # <<>>) =>
         LET text == mentions.result
             name == Head(mentions.names)
         IN  \A p \in MatchStarts(text, 1, name) :
               /\ \A longer \in MentionedAt(text, p, mentions.cache) :
                    Len(longer) <= Len(name)
               /\ text[p] = "@" =>
                    ~( /\ p > 1 /\ text[p - 1] = "<"
                       /\ p + Len(name) + 1 <= Len(text)
                       /\ text[p + Len(name) + 1] = ">" ) ]_vars

(***************************************************************************)
(* Properties of ownsJid and of the router                                 *)
(***************************************************************************)
\* C33: ownsJid(id) is true exactly when id is C, D or G followed by one or
\* more upper-case letters or digits, whatever the connection state of the
\* adapter it is called on and whether or not the id is registered: true for
\* C012345ABCD and D012345ABCD, false for unknown:12345.
C33_OwnsJidIsFormat ==
  route.pc = "owns" =>
    LET id == route.jid
    IN  /\ route.result \in BOOLEAN
        /\ route.result <=>
             /\ Len(id) >= 2
             /\ id[1] = "C" \/ id[1] = "D" \/ id[1] = "G"
             /\ \A i \in 2..Len(id) :
                  \/ \E k \in 1..26 : UpperLetters[k] = id[i]
                  \/ id[i] \in Digits
        /\ id \in {JidChannel, JidDm} => route.result
        /\ id = JidUnknown => ~route.result

\* an adapter that is not connected owns an id that is not registered
C33_Witness ==
  /\ route.pc = "owns"
  /\ route.result = TRUE
  /\ \A c \in 1..Len(route.channels) : ~route.channels[c].connected
  /\ route.jid \notin {<<"C", "1">>, <<"D", "1">>}

\* C40: routeOutbound calls sendMessage on the first channel of the list
\* that owns the id and is connected, and on no other; when there is none it
\* throws "No channel" and calls sendMessage on no channel; so it never
\* calls sendMessage on a channel that is not connected.  findChannel
\* returns the first channel that owns the id, connected or not.
C40_RoutesToFirstConnectedOwner ==
  LET owners == {i \in 1..Len(route.channels) : ownsJid(route.jid)}
      usable == {i \in owners : route.channels[i].connected}
  IN  /\ route.pc = "routed" =>
           /\ \A i \in 1..Len(route.sent) : route.channels[route.sent[i]].connected
           /\ IF usable = {}
              THEN route.result = "No channel" /\ route.sent = <<>>
              ELSE /\ route.result = "sent"
                   /\ route.sent = <<CHOOSE i \in usable : \A j \in usable : i <= j>>
      /\ route.pc = "found" =>
           IF owners = {} THEN route.result = Undefined
           ELSE route.result = CHOOSE i \in owners : \A j \in owners : i <= j

\* the first channel owns the id and is not connected: the message went
\* through the second
C40_Witness ==
  /\ route.pc = "routed"
  /\ Len(route.channels) >= 2
  /\ ownsJid(route.jid)
  /\ ~route.channels[1].connected
  /\ route.sent = <<2>>

(***************************************************************************)
(* Properties of the outbound delivery queue: posts                        *)
(***************************************************************************)
\* the chat.postMessage calls this step makes, as indices of posts'
NewPosts == (Len(posts) + 1)..Len(posts')

\* C34: chat.postMessage is called only while the adapter is connected: once
\* disconnect() has run, nothing is posted before the next connect() that
\* succeeds, not even by a drain loop or a sendMessage() that was running.
C34_PostsOnlyWhileConnected ==
  [][ NewPosts # {} => connected' ]_vars

\* C35: every text posted has passed resolveMentions: it is a chunk of the
\* text resolved when sendMessage() was called on the connected adapter, or
\* of the text resolved against the identity cache as it is when the drain
\* posts it.
C35_PostedTextIsResolved ==
  [][ \A i \in NewPosts :
        LET post == posts'[i]
            send == sends'[post.mid]
        IN  \/ send.wasConnected
               /\ post.text = splitMessage(send.rtext)[post.k]
            \/ post.text =
                 splitMessage(resolveMentions(send.call.text, userInfoCache))[post.k] ]_vars

\* C36: a chunk of a message that was posted is not posted again: no two
\* chat.postMessage calls have the same message and chunk number when the
\* earlier one succeeded.
C36_ChunkPostedAtMostOnce ==
  \A i, j \in 1..Len(posts) :
    (i < j /\ posts[i].mid = posts[j].mid /\ posts[i].k = posts[j].k) =>
      posts[i].st # "ok"

\* C39: this.flushing is true exactly while a drain loop runs; the step that
\* ends a drain, by an empty queue or by a post that threw, leaves it false;
\* and a connect() that succeeds with a non-empty queue when no drain runs
\* starts one.
C39_FlagFollowsDrain ==
  /\ [](flushing <=> flushLoops # {})
  /\ [][ (flushLoops # {} /\ flushLoops' = {}) => ~flushing' ]_vars
  /\ [][ ( /\ connPc = "auth" /\ connectResult' = "resolved"
           /\ flushLoops = {} /\ Len(outgoingQueue) > 0 ) =>
         /\ flushing'
         /\ \E loop \in flushLoops' :
              loop.pc = "post" /\ loop.item = Head(outgoingQueue) ]_vars

\* a post of a drain threw, and the connect() after it has started a drain
\* for the item that was left in the queue
C39_Witness ==
  /\ \E i \in 1..Len(posts) : posts[i].via = "flush" /\ posts[i].st = "failed"
  /\ flushing
  /\ \E loop \in flushLoops : loop.pc = "post" /\ posts[loop.post].st = "pending"

(***************************************************************************)
(* Properties of edits                                                     *)
(***************************************************************************)
\* C37: once onMessageDelete was called for (channel, id), no onMessage for
\* that key is called for an edit that arrived before the deletion, even
\* when the handler of the edit awaited users.info or a download while the
\* deletion was handled.
C37_NoEditAfterDeletion ==
  [][ \A i \in (Len(delivered) + 1)..Len(delivered') :
        LET msg == delivered'[i]
        IN  (msg.eid > 0 /\ IsEdit(events'[msg.eid].ev)) =>
              ~\E d \in deleted :
                 /\ d.channel = msg.chat_jid
                 /\ d.id = msg.id
                 /\ d.eid > msg.eid ]_vars

\* C38: the message delivered for an edit of (channel, id) has the
\* thread_ts of the message delivered for the original event, also when the
\* original is a top-level mention, whose thread_ts is its own id.
C38_EditKeepsThread ==
  \A i, j \in 1..Len(delivered) :
    LET original == delivered[i]
        edit     == delivered[j]
    IN  ( /\ original.eid > 0 /\ edit.eid > 0
          /\ IsNewMessage(events[original.eid].ev)
          /\ IsEdit(events[edit.eid].ev)
          /\ edit.chat_jid = original.chat_jid
          /\ edit.id = original.id ) =>
        edit.thread_ts = original.thread_ts

====
